---- MODULE Spec2Model ----
(***************************************************************************)
(* Model of the MCP system-health server: the command runners              *)
(* (_run_command, CommandExecutor.execute), the envelope builders          *)
(* (_make_response, ResponseBuilder.build) with their schema derivation,   *)
(* and the eight diagnostic collectors of mcp_server_faultcheck.py.        *)
(*                                                                         *)
(* Text is modelled as a sequence of lexemes (a Str): each lexeme is a     *)
(* run of characters, cut finely enough that every literal the code        *)
(* searches for or splits on is a run of whole lexemes.  " " and "\n" are  *)
(* the whitespace lexemes.  The empty string is <<>>.                      *)
(***************************************************************************)
EXTENDS Integers, Sequences, FiniteSets, TLC

(* ------------------------------------------------------------------ *)
(* Python string operations on Str                                     *)
(* ------------------------------------------------------------------ *)

NL == "\n"

IsWs(t) == t \in {" ", NL}

SetMin(S) == CHOOSE m \in S : \A n \in S : m <= n

SetMax(S) == CHOOSE m \in S : \A n \in S : n <= m

\* str.strip(): drop the leading and trailing whitespace
Strip(s) ==
  LET keep == {i \in 1..Len(s) : ~IsWs(s[i])}
  IN IF keep = {} THEN <<>> ELSE SubSeq(s, SetMin(keep), SetMax(keep))

\* str.find(sub) + 1: position of the first occurrence of sub, 0 when absent
Find(s, sub) ==
  LET hits == {i \in 1..(Len(s) + 1 - Len(sub)) : SubSeq(s, i, i + Len(sub) - 1) = sub}
  IN IF Len(sub) > Len(s) \/ hits = {} THEN 0 ELSE SetMin(hits)

\* sub in s
Contains(s, sub) == Find(s, sub) # 0

\* s.startswith(p)
StartsWith(s, p) == Len(p) <= Len(s) /\ SubSeq(s, 1, Len(p)) = p

\* s.split(sep): always at least one part
RECURSIVE Split(_, _)
Split(s, sep) ==
  LET i == Find(s, sep)
  IN IF i = 0 THEN <<s>>
     ELSE <<SubSeq(s, 1, i - 1)>> \o Split(SubSeq(s, i + Len(sep), Len(s)), sep)

\* s.split(sep, 1): at most one cut
SplitOnce(s, sep) ==
  LET i == Find(s, sep)
  IN IF i = 0 THEN <<s>>
     ELSE <<SubSeq(s, 1, i - 1), SubSeq(s, i + Len(sep), Len(s))>>

\* s.split(): the whitespace-delimited words, none of them empty
RECURSIVE SplitWs(_)
SplitWs(s) ==
  LET words == {i \in 1..Len(s) : ~IsWs(s[i])}
  IN IF words = {} THEN <<>>
     ELSE LET b == SetMin(words)
              gaps == {i \in b..Len(s) : IsWs(s[i])}
              e == IF gaps = {} THEN Len(s) ELSE SetMin(gaps) - 1
          IN <<SubSeq(s, b, e)>> \o SplitWs(SubSeq(s, e + 1, Len(s)))

\* s.splitlines(): cut at every line end; no empty last line
SplitLines(s) ==
  LET parts == Split(s, <<NL>>)
  IN IF parts[Len(parts)] = <<>> THEN SubSeq(parts, 1, Len(parts) - 1) ELSE parts

\* "\n".join(ls) followed by a final line end, as the tools print
RECURSIVE JoinLines(_)
JoinLines(ls) ==
  IF ls = <<>> THEN <<>> ELSE Head(ls) \o <<NL>> \o JoinLines(Tail(ls))

\* seq[-1]
Last(seq) == seq[Len(seq)]

(* ------------------------------------------------------------------ *)
(* Python values and dicts                                             *)
(* ------------------------------------------------------------------ *)

\* A value carries its runtime type and its text.
PyStr(s) == [t |-> "str", v |-> s]

PyInt(s) == [t |-> "int", v |-> s]

PyFloat(s) == [t |-> "float", v |-> s]

PyBool(s) == [t |-> "bool", v |-> s]

\* bool is a subclass of int; every class is a subclass of itself
IsSubclass(t, c) == t = c \/ (t = "bool" /\ c = "int")

\* isinstance(value, classes)
IsInstance(val, classes) == \E c \in classes : IsSubclass(val.t, c)

\* A dict is the sequence of its <<key, value>> items in insertion order.
Keys(d) == [i \in 1..Len(d) |-> d[i][1]]

HasKey(d, k) == \E i \in 1..Len(d) : d[i][1] = k

Get(d, k) == d[CHOOSE i \in 1..Len(d) : d[i][1] = k][2]

\* d[k] = val
Put(d, k, val) ==
  IF HasKey(d, k) THEN [i \in 1..Len(d) |-> IF d[i][1] = k THEN <<k, val>> ELSE d[i]]
  ELSE Append(d, <<k, val>>)

\* An optional argument: None, or a value
None == [isNone |-> TRUE, val |-> <<>>]

Some(x) == [isNone |-> FALSE, val |-> x]

(* ------------------------------------------------------------------ *)
(* Error taxonomy                                                      *)
(* ------------------------------------------------------------------ *)

SUCCESS == 0

COMMAND_NOT_FOUND == 1001

COMMAND_EXECUTION_FAILED == 1002

PARSE_FAILED == 1003

UNEXPECTED_EXCEPTION == 1004

DEVICE_NOT_AVAILABLE == 1005

ErrorCode ==
  {SUCCESS, COMMAND_NOT_FOUND, COMMAND_EXECUTION_FAILED, PARSE_FAILED,
   UNEXPECTED_EXCEPTION, DEVICE_NOT_AVAILABLE}

\* A table whose entry for 0 is the empty string
ErrorCodeBlankSuccess(code) ==
  IF code = 0 THEN <<>> ELSE <<"unknown error">>

\* ERROR_CODE.get(code, "unknown error") / ERROR_MESSAGES.get(code, "unknown error")
ERROR_CODE(code) ==
  CASE code = 0 -> <<"success">>
    [] code = 1001 -> <<"command not found or permission denied">>
    [] code = 1002 -> <<"command execution failed">>
    [] code = 1003 -> <<"failed to parse response">>
    [] code = 1004 -> <<"unexpected exception occurred">>
    [] code = 1005 -> <<"device not available or no matching hardware found">>
    [] OTHER -> <<"unknown error">>

(* ------------------------------------------------------------------ *)
(* subprocess.run and the two command runners                          *)
(* ------------------------------------------------------------------ *)

\* subprocess.run returned a CompletedProcess
Completed(out, err, rc) ==
  [kind |-> "completed", stdout |-> out, stderr |-> err, returncode |-> rc, exc |-> "none"]

\* subprocess.run raised
Raises(e) ==
  [kind |-> "raised", stdout |-> <<>>, stderr |-> <<>>, returncode |-> 0, exc |-> e]

\* The exceptions subprocess.run raises, and their base classes
ExcBases(e) ==
  CASE e = "TimeoutExpired" -> {"TimeoutExpired", "SubprocessError", "Exception"}
    [] e = "FileNotFoundError" -> {"FileNotFoundError", "OSError", "Exception"}
    [] e = "PermissionError" -> {"PermissionError", "OSError", "Exception"}
    [] e = "UnicodeDecodeError" -> {"UnicodeDecodeError", "ValueError", "Exception"}
    [] OTHER -> {e}

\* `except cls` catches e
Catches(cls, e) == cls \in ExcBases(e)

\* A command is a sequence of Str: an argument list, or (isList false) the one
\* shell string.
\* repr(cmd) of an argument list, the command itself for a shell string
RECURSIVE ReprItems(_)
ReprItems(cmd) ==
  IF cmd = <<>> THEN <<>>
  ELSE <<"'">> \o Head(cmd) \o <<"'">> \o (IF Len(cmd) > 1 THEN <<", ">> ELSE <<>>)
       \o ReprItems(Tail(cmd))

ReprCmd(cmd, isList) == IF isList THEN <<"[">> \o ReprItems(cmd) \o <<"]">> ELSE cmd[1]

\* The program subprocess.run starts: the first argument, or the shell
Program(cmd, isList) == IF isList THEN Head(cmd) ELSE <<"/bin/sh">>

\* str(e)
StrExc(e, cmd, isList, timeout) ==
  CASE e = "TimeoutExpired" ->
         <<"Command '">> \o ReprCmd(cmd, isList) \o <<"' timed out after ", ToString(timeout), " seconds">>
    [] e = "FileNotFoundError" ->
         <<"[Errno 2] No such file or directory: '">> \o Program(cmd, isList) \o <<"'">>
    [] e = "PermissionError" ->
         <<"[Errno 13] Permission denied: '">> \o Program(cmd, isList) \o <<"'">>
    [] e = "UnicodeDecodeError" -> <<"'utf-8' codec can't decode byte">>
    [] OTHER -> <<e>>

\* What a runner hands back: the (stdout, stderr, returncode) triple, or the
\* exception that left it
Returned(out, err, rc) ==
  [raised |-> FALSE, exc |-> "none", stdout |-> out, stderr |-> err, rc |-> rc]

Propagates(e) ==
  [raised |-> TRUE, exc |-> e, stdout |-> <<>>, stderr |-> <<>>, rc |-> 0]

\* timeout=3 of _run_command
RUN_TIMEOUT == 3

\* _run_command(cmd, shell) when subprocess.run ends as p
RunCommand(cmd, isList, p) ==
  IF p.kind = "completed"
  THEN Returned(Strip(p.stdout), Strip(p.stderr), p.returncode)
  ELSE IF Catches("Exception", p.exc)
       THEN Returned(<<>>, StrExc(p.exc, cmd, isList, RUN_TIMEOUT), -1)
       ELSE Propagates(p.exc)

\* settings.COMMAND_TIMEOUT, settings.SSH_TIMEOUT, settings.SSH_PORT defaults
COMMAND_TIMEOUT == 3

SSH_TIMEOUT == 3

SSH_PORT == 22

\* CommandExecutor.__init__: self.timeout = timeout or settings.COMMAND_TIMEOUT
\* (the argument 0 stands for both None and 0, which are equally falsy)
ExecutorTimeout(timeout) == IF timeout # 0 THEN timeout ELSE COMMAND_TIMEOUT

\* The ssh/sudo wrapping of CommandExecutor.execute
SshCommand(cmd, isList) ==
  << <<"ssh">>, <<"-o">>, <<"StrictHostKeyChecking=no">>, <<"-o">>,
     <<"UserKnownHostsFile=/dev/null">>, <<"-o">>, <<"LogLevel=ERROR">>, <<"-o">>,
     <<"ConnectTimeout=", ToString(SSH_TIMEOUT)>>, <<"-p">>, <<ToString(SSH_PORT)>>,
     <<"stor_user", "@", "localhost">>, <<"sudo">> >>
  \o cmd

\* Execute with the timeout handler as its only except clause
ExecuteTimeoutOnly(timeout, cmd, isList, p) ==
  LET t == ExecutorTimeout(timeout)
  IN IF p.kind = "completed"
     THEN Returned(Strip(p.stdout), Strip(p.stderr), p.returncode)
     ELSE IF Catches("TimeoutExpired", p.exc)
          THEN Returned(<<>>, <<"Command timeout after ", ToString(t), "s">>, -1)
          ELSE Propagates(p.exc)

\* Execute reporting the default timeout instead of the configured one
ExecuteDefaultTimeout(timeout, cmd, isList, p) ==
  LET full == SshCommand(cmd, isList)
  IN IF p.kind = "completed"
     THEN Returned(Strip(p.stdout), Strip(p.stderr), p.returncode)
     ELSE IF Catches("TimeoutExpired", p.exc)
          THEN Returned(<<>>, <<"Command timeout after ", ToString(COMMAND_TIMEOUT), "s">>, -1)
          ELSE IF Catches("Exception", p.exc)
               THEN Returned(<<>>, <<"Command execution failed: ">>
                                   \o StrExc(p.exc, full, TRUE, COMMAND_TIMEOUT), -1)
               ELSE Propagates(p.exc)

\* Execute reporting every non-zero exit code as -1
ExecuteFoldingFailures(timeout, cmd, isList, p) ==
  LET full == SshCommand(cmd, isList)
      t == ExecutorTimeout(timeout)
  IN IF p.kind = "completed"
     THEN Returned(Strip(p.stdout), Strip(p.stderr), IF p.returncode = 0 THEN 0 ELSE -1)
     ELSE IF Catches("TimeoutExpired", p.exc)
          THEN Returned(<<>>, <<"Command timeout after ", ToString(t), "s">>, -1)
          ELSE IF Catches("Exception", p.exc)
               THEN Returned(<<>>, <<"Command execution failed: ">> \o StrExc(p.exc, full, TRUE, t), -1)
               ELSE Propagates(p.exc)

\* CommandExecutor(timeout).execute(cmd, shell) when subprocess.run ends as p
Execute(timeout, cmd, isList, p) ==
  LET full == SshCommand(cmd, isList)
      t == ExecutorTimeout(timeout)
  IN IF p.kind = "completed"
     THEN Returned(Strip(p.stdout), Strip(p.stderr), p.returncode)
     ELSE IF Catches("TimeoutExpired", p.exc)
          THEN Returned(<<>>, <<"Command timeout after ", ToString(t), "s">>, -1)
          ELSE IF Catches("Exception", p.exc)
               THEN Returned(<<>>, <<"Command execution failed: ">> \o StrExc(p.exc, full, TRUE, t), -1)
               ELSE Propagates(p.exc)

(* ------------------------------------------------------------------ *)
(* Envelope builders and schema derivation                             *)
(* ------------------------------------------------------------------ *)

\* The item schema of an envelope with no data: any object
OpenItems == [type |-> "object", properties |-> <<>>, required |-> <<>>, additionalProperties |-> TRUE]

\* The fixed part of the schema around the item schema (descriptions left out)
SchemaAround(items) ==
  [type |-> "object",
   properties |-> [code |-> [type |-> "number"],
                   message |-> [type |-> "string"],
                   data |-> [type |-> "array", items |-> items]],
   required |-> <<"code", "message", "data">>,
   additionalProperties |-> FALSE]

\* _get_output_schema_for_data of mcp_server_faultcheck.py: every field a string
FaultcheckFieldType(val) == "string"

GetOutputSchemaForData(data) ==
  IF data = <<>> THEN SchemaAround(OpenItems)
  ELSE LET sample == data[1]
       IN SchemaAround(
            [type |-> "object",
             properties |-> [i \in 1..Len(sample) |->
                               <<sample[i][1], [type |-> FaultcheckFieldType(sample[i][2])]>>],
             required |-> Keys(sample),
             additionalProperties |-> TRUE])

\* BuilderFieldType giving every field the type of mcp_server_faultcheck.py
BuilderFieldTypeString(val) == "string"

\* ResponseBuilder._get_output_schema_for_data: the isinstance chain, in its order
BuilderFieldType(val) ==
  IF IsInstance(val, {"int", "float"}) THEN "number"
  ELSE IF IsInstance(val, {"bool"}) THEN "boolean"
  ELSE "string"

\* BuilderSchemaForData sampling the last record instead of the first
BuilderSchemaForLastRecord(data) ==
  IF data = <<>> THEN SchemaAround(OpenItems)
  ELSE LET sample == data[Len(data)]
       IN SchemaAround(
            [type |-> "object",
             properties |-> [i \in 1..Len(sample) |->
                               <<sample[i][1], [type |-> BuilderFieldType(sample[i][2])]>>],
             required |-> Keys(sample),
             additionalProperties |-> TRUE])

\* ResponseBuilder._get_output_schema_for_data
BuilderSchemaForData(data) ==
  IF data = <<>> THEN SchemaAround(OpenItems)
  ELSE LET sample == data[1]
       IN SchemaAround(
            [type |-> "object",
             properties |-> [i \in 1..Len(sample) |->
                               <<sample[i][1], [type |-> BuilderFieldType(sample[i][2])]>>],
             required |-> Keys(sample),
             additionalProperties |-> TRUE])

\* MessageOr falling back to the default for None only
MessageOrNoneOnly(message, default) ==
  IF message.isNone THEN default ELSE message.val

\* message or <default>: None and "" both give the default
MessageOr(message, default) ==
  IF ~message.isNone /\ message.val # <<>> THEN message.val ELSE default

\* if data is None: data = []
DataOrEmpty(data) == IF data.isNone THEN <<>> ELSE data.val

Envelope(code, msg, data, schema) ==
  [structuredContent |-> [response |-> [code |-> code, message |-> msg, data |-> data]],
   outputSchema |-> schema]

\* _make_response(code, data, message), before json.dumps
MakeResponse(code, data, message) ==
  LET d == DataOrEmpty(data)
  IN Envelope(code, MessageOr(message, ERROR_CODE(code)), d, GetOutputSchemaForData(d))

\* ResponseBuilder.build(code, data, message), before json.dumps
Build(code, data, message) ==
  LET d == DataOrEmpty(data)
  IN Envelope(code, MessageOr(message, ERROR_CODE(code)), d, BuilderSchemaForData(d))

(* ------------------------------------------------------------------ *)
(* json.dumps of the envelope and json.loads of the returned string     *)
(* ------------------------------------------------------------------ *)

\* The values json handles beside str, int, float and bool
PyList(xs) == [t |-> "list", v |-> xs]

PyDict(items) == [t |-> "dict", v |-> items]

QUOTE == "\""

BACKSLASH == "\\"

\* Escape rendering the double quote as a single quote
EscapeQuoteAsApostrophe(lex) ==
  CASE lex = QUOTE -> "'"
    [] lex = BACKSLASH -> "\\\\"
    [] lex = NL -> "\\n"
    [] OTHER -> lex

\* What the encoder writes for one piece of a string (ensure_ascii=False)
Escape(lex) ==
  CASE lex = QUOTE -> "\\\""
    [] lex = BACKSLASH -> "\\\\"
    [] lex = NL -> "\\n"
    [] OTHER -> lex

\* What the decoder reads back from one piece of a string
Unescape(lex) ==
  CASE lex = "\\\"" -> QUOTE
    [] lex = "\\\\" -> BACKSLASH
    [] lex = "\\n" -> NL
    [] OTHER -> lex

DumpStr(str) == <<QUOTE>> \o [i \in 1..Len(str) |-> Escape(str[i])] \o <<QUOTE>>

\* json.dumps(value) with the default separators ", " and ": "
RECURSIVE Dumps(_)
RECURSIVE DumpItems(_, _)
DumpItems(xs, isDict) ==
  IF xs = <<>> THEN <<>>
  ELSE (IF isDict THEN DumpStr(<<Head(xs)[1]>>) \o <<":", " ">> \o Dumps(Head(xs)[2])
        ELSE Dumps(Head(xs)))
       \o (IF Len(xs) > 1 THEN <<",", " ">> ELSE <<>>)
       \o DumpItems(Tail(xs), isDict)

Dumps(val) ==
  CASE val.t = "str" -> DumpStr(val.v)
    [] val.t \in {"int", "float"} -> val.v
    [] val.t = "bool" -> IF val.v = <<"True">> THEN <<"true">> ELSE <<"false">>
    [] val.t = "list" -> <<"[">> \o DumpItems(val.v, FALSE) \o <<"]">>
    [] val.t = "dict" -> <<"{">> \o DumpItems(val.v, TRUE) \o <<"}">>

\* The decoder: each operator reads from position i and says where it stopped
RECURSIVE SkipWs(_, _)
SkipWs(toks, i) == IF i <= Len(toks) /\ IsWs(toks[i]) THEN SkipWs(toks, i + 1) ELSE i

RECURSIVE ParseString(_, _, _)
ParseString(toks, i, acc) ==
  IF toks[i] = QUOTE THEN [val |-> acc, next |-> i + 1]
  ELSE ParseString(toks, i + 1, Append(acc, Unescape(toks[i])))

RECURSIVE ParseNumber(_, _, _)
ParseNumber(toks, i, acc) ==
  IF i > Len(toks) \/ toks[i] \in {",", "}", "]", " "}
  THEN [val |-> IF \E k \in 1..Len(acc) : acc[k] \in {".", "e", "E"}
                THEN PyFloat(acc) ELSE PyInt(acc),
        next |-> i]
  ELSE ParseNumber(toks, i + 1, Append(acc, toks[i]))

RECURSIVE ParseValue(_, _)
RECURSIVE ParseItems(_, _, _, _)
ParseItems(toks, i, isDict, acc) ==
  LET j == SkipWs(toks, i)
  IN IF toks[j] \in {"]", "}"}
     THEN [val |-> IF isDict THEN PyDict(acc) ELSE PyList(acc), next |-> j + 1]
     ELSE IF toks[j] = "," THEN ParseItems(toks, j + 1, isDict, acc)
     ELSE IF isDict
          THEN LET key == ParseString(toks, j + 1, <<>>)
                   colon == SkipWs(toks, key.next)
                   item == ParseValue(toks, colon + 1)
               IN ParseItems(toks, item.next, isDict, Append(acc, <<key.val[1], item.val>>))
          ELSE LET item == ParseValue(toks, j)
               IN ParseItems(toks, item.next, isDict, Append(acc, item.val))

ParseValue(toks, i) ==
  LET j == SkipWs(toks, i)
  IN CASE toks[j] = "{" -> ParseItems(toks, j + 1, TRUE, <<>>)
       [] toks[j] = "[" -> ParseItems(toks, j + 1, FALSE, <<>>)
       [] toks[j] = QUOTE ->
            LET str == ParseString(toks, j + 1, <<>>)
            IN [val |-> PyStr(str.val), next |-> str.next]
       [] toks[j] = "true" -> [val |-> PyBool(<<"True">>), next |-> j + 1]
       [] toks[j] = "false" -> [val |-> PyBool(<<"False">>), next |-> j + 1]
       [] OTHER -> ParseNumber(toks, j, <<>>)

\* json.loads(text)
Loads(toks) == ParseValue(toks, 1).val

\* d.get(key) on a decoded object
Member(d, key) == Get(d.v, key)

PyOfBool(b) == PyBool(<<IF b THEN "True" ELSE "False">>)

StrList(names) == PyList([i \in 1..Len(names) |-> PyStr(<<names[i]>>)])

TypeOnly(sc) == PyDict(<< <<"type", PyStr(<<sc.type>>)>> >>)

\* The item schema as the dict handed to json.dumps
ItemsDict(it) ==
  PyDict(<< <<"type", PyStr(<<it.type>>)>>,
            <<"properties",
              PyDict([i \in 1..Len(it.properties) |->
                        <<it.properties[i][1], TypeOnly(it.properties[i][2])>>])>>,
            <<"required", StrList(it.required)>>,
            <<"additionalProperties", PyOfBool(it.additionalProperties)>> >>)

\* The schema as the dict handed to json.dumps
SchemaDict(sc) ==
  PyDict(<< <<"type", PyStr(<<sc.type>>)>>,
            <<"properties",
              PyDict(<< <<"code", TypeOnly(sc.properties.code)>>,
                        <<"message", TypeOnly(sc.properties.message)>>,
                        <<"data", PyDict(<< <<"type", PyStr(<<sc.properties.data.type>>)>>,
                                            <<"items", ItemsDict(sc.properties.data.items)>> >>)>> >>)>>,
            <<"required", StrList(sc.required)>>,
            <<"additionalProperties", PyOfBool(sc.additionalProperties)>> >>)

\* data as json sees it: a list of dicts
DataList(d) == PyList([i \in 1..Len(d) |-> PyDict(d[i])])

\* The dict a builder hands to json.dumps
EnvelopeDict(env) ==
  PyDict(<< <<"structuredContent",
              PyDict(<< <<"response",
                          PyDict(<< <<"code", PyInt(<<ToString(env.structuredContent.response.code)>>)>>,
                                    <<"message", PyStr(env.structuredContent.response.message)>>,
                                    <<"data", DataList(env.structuredContent.response.data)>> >>)>> >>)>>,
            <<"outputSchema", SchemaDict(env.outputSchema)>> >>)

\* The string a builder returns for an envelope
Serialized(env) == Dumps(EnvelopeDict(env))

(* ------------------------------------------------------------------ *)
(* Bounds of the model                                                 *)
(* ------------------------------------------------------------------ *)

\* Lines in the output of an enumeration command
MaxLines == 2

\* Secondary commands of one call that end other than in their expected output
MaxFaults == 1

\* Largest number a tool prints
MaxNum == 12

(* ------------------------------------------------------------------ *)
(* State                                                               *)
(* ------------------------------------------------------------------ *)

VARIABLES
  pc,       \* where the running call stands: "idle", a collector's position, "done"
  tool,     \* the operation being served
  lines,    \* stdout.splitlines() of the enumeration command
  devices,  \* getNvmePcieLinkSpeed: the device list
  idx,      \* position of the for loop in lines (in devices for NVMe)
  iface,    \* local iface
  device,   \* local device of getLosslessNetworkConfig
  bdf,      \* local bdf
  entry,    \* local entry: the record under construction
  keyIdx,   \* getArpConfig: position in keys_map
  data,     \* local data: the records collected so far
  result,   \* what the call returned or raised
  first,    \* a collector's locals (stdout, stderr, ret): what its first command gave
  proc,     \* how the last subprocess.run ended
  last,     \* what the command runner made of it
  file,     \* the sysfs file the last step read, None when it read none
  faults,   \* secondary commands of this call that did not end as expected
  args,     \* arguments of a direct call of a runner or a builder
  earlier   \* history: an earlier call of this session was seen to end

vars ==
  <<pc, tool, lines, devices, idx, iface, device, bdf, entry, keyIdx, data, result,
    first, proc, last, file, faults, args, earlier>>

NoResult == [kind |-> "none", exc |-> "none", value |-> <<>>]

NoProc == [kind |-> "none", stdout |-> <<>>, stderr |-> <<>>, returncode |-> 0, exc |-> "none"]

NoLast == [raised |-> FALSE, exc |-> "none", stdout |-> <<>>, stderr |-> <<>>, rc |-> 0]

NoArgs == [op |-> "none"]

\* The control state and locals of the running call, as one record
Cur ==
  [pc |-> pc, tool |-> tool, lines |-> lines, devices |-> devices, idx |-> idx,
   iface |-> iface, device |-> device, bdf |-> bdf, entry |-> entry,
   keyIdx |-> keyIdx, data |-> data, result |-> result, first |-> first]

Becomes(n) ==
  /\ pc' = n.pc
  /\ tool' = n.tool
  /\ lines' = n.lines
  /\ devices' = n.devices
  /\ idx' = n.idx
  /\ iface' = n.iface
  /\ device' = n.device
  /\ bdf' = n.bdf
  /\ entry' = n.entry
  /\ keyIdx' = n.keyIdx
  /\ data' = n.data
  /\ result' = n.result
  /\ first' = n.first

\* return value
Finish(s, value) ==
  [s EXCEPT !.pc = "done", !.result = [kind |-> "returned", exc |-> "none", value |-> value]]

\* an exception leaves the function
Throw(s, e) ==
  [s EXCEPT !.pc = "done", !.result = [kind |-> "raised", exc |-> e, value |-> <<>>]]

Init ==
  /\ pc = "idle"
  /\ tool = "none"
  /\ lines = <<>>
  /\ devices = <<>>
  /\ idx = 0
  /\ iface = <<>>
  /\ device = <<>>
  /\ bdf = <<>>
  /\ entry = <<>>
  /\ keyIdx = 0
  /\ data = <<>>
  /\ result = NoResult
  /\ first = NoLast
  /\ proc = NoProc
  /\ last = NoLast
  /\ file = None
  /\ faults = 0
  /\ args = NoArgs
  /\ earlier = FALSE

(* ------------------------------------------------------------------ *)
(* The enumeration loop shared by the ibdev2netdev collectors          *)
(* ------------------------------------------------------------------ *)

IbTools ==
  {"getArpConfig", "getLosslessNetworkConfig", "getPcieLinkSpeedForNic",
   "getNicCongestionStatsTx", "getSwitchCongestionStatsRx"}

\* the literal " ==> "
SEP == <<" ", "==>", " ">>

\* The for loop from line `from` on: skips the lines that do not split in two,
\* stops at the first that does (reading iface, and device where the collector does)
RECURSIVE NextEntity(_, _, _)
\* NextEntity taking every line with a separator, however many
NextEntityAtLeastTwo(t, ls, from) ==
  IF from > Len(ls) THEN [kind |-> "end", idx |-> from, iface |-> <<>>, device |-> <<>>]
  ELSE LET parts == Split(ls[from], SEP)
       IN IF Len(parts) < 2 THEN NextEntity(t, ls, from + 1)
          ELSE LET right == SplitWs(parts[2])
                   left == SplitWs(parts[1])
               IN IF right = <<>>
                  THEN [kind |-> "IndexError", idx |-> from, iface |-> <<>>, device |-> <<>>]
                  ELSE IF t = "getLosslessNetworkConfig" /\ left = <<>>
                       THEN [kind |-> "IndexError", idx |-> from, iface |-> right[1], device |-> <<>>]
                       ELSE [kind |-> "entity", idx |-> from, iface |-> right[1],
                             device |-> IF t = "getLosslessNetworkConfig" THEN left[1] ELSE <<>>]

NextEntity(t, ls, from) ==
  IF from > Len(ls) THEN [kind |-> "end", idx |-> from, iface |-> <<>>, device |-> <<>>]
  ELSE LET parts == Split(ls[from], SEP)
       IN IF Len(parts) # 2 THEN NextEntity(t, ls, from + 1)
          ELSE LET right == SplitWs(parts[2])
                   left == SplitWs(parts[1])
               IN IF right = <<>>
                  THEN [kind |-> "IndexError", idx |-> from, iface |-> <<>>, device |-> <<>>]
                  ELSE IF t = "getLosslessNetworkConfig" /\ left = <<>>
                       THEN [kind |-> "IndexError", idx |-> from, iface |-> right[1], device |-> <<>>]
                       ELSE [kind |-> "entity", idx |-> from, iface |-> right[1],
                             device |-> IF t = "getLosslessNetworkConfig" THEN left[1] ELSE <<>>]

\* The position of a collector's first per-entity command
FirstCommand(t) ==
  CASE t = "getArpConfig" -> "sysctl"
    [] t = "getLosslessNetworkConfig" -> "mlnx_qos"
    [] t = "getPcieLinkSpeedForNic" -> "ethtool_i"
    [] t = "getNicCongestionStatsTx" -> "ethtool_S_tx"
    [] t = "getSwitchCongestionStatsRx" -> "ethtool_S_rx"

\* entry = {"interface": iface} where the collector starts the record early
FirstEntry(t, ifc) ==
  IF t \in {"getArpConfig", "getLosslessNetworkConfig"}
  THEN <<<<"interface", PyStr(ifc)>>>>
  ELSE <<>>

\* Run the loop from line `from` to its next command, or to the return after it
EnterLoop(s, from) ==
  LET e == NextEntity(s.tool, s.lines, from)
  IN CASE e.kind = "end" -> Finish([s EXCEPT !.idx = e.idx], MakeResponse(0, Some(s.data), None))
       [] e.kind = "IndexError" -> Throw([s EXCEPT !.idx = e.idx], "IndexError")
       [] e.kind = "entity" ->
            [s EXCEPT !.idx = e.idx, !.iface = e.iface, !.device = e.device, !.bdf = <<>>,
                      !.entry = FirstEntry(s.tool, e.iface), !.keyIdx = 1,
                      !.pc = FirstCommand(s.tool)]

\* The message of the envelope returned when the first command fails
PrereqFailure(t, stderr) ==
  CASE t = "getArpConfig" -> <<"ibdev2netdev failed: ">> \o stderr
    [] t = "getLosslessNetworkConfig" -> <<"Failed to get IB interfaces">>
    [] t = "getPcieLinkSpeedForNic" -> <<"No IB devices found">>
    [] t = "getNicCongestionStatsTx" -> <<"No interfaces">>
    [] t = "getSwitchCongestionStatsRx" -> <<"No interfaces">>
    [] t = "getNvmePcieLinkSpeed" -> <<"nvme list failed: ">> \o stderr
    [] t = "getCpuUsage" -> <<"top failed: ">> \o stderr
    [] t = "getMemoryUsage" -> <<"free failed: ">> \o stderr

\* PrereqFailed reporting the failure under the neighbouring code 1001
PrereqFailedAsNotFound(s, r) ==
  Finish(s, MakeResponse(1001, Some(<<>>), Some(PrereqFailure(s.tool, r.stderr))))

\* if ret != 0: return _make_response(1002, [], ...)
PrereqFailed(s, r) ==
  Finish(s, MakeResponse(1002, Some(<<>>), Some(PrereqFailure(s.tool, r.stderr))))

\* An ibdev2netdev collector from its first command, which the runner ended as r
IbCollector(s, r) ==
  IF r.raised THEN Throw(s, r.exc)
  ELSE IF r.rc # 0 THEN PrereqFailed(s, r)
  ELSE EnterLoop([s EXCEPT !.lines = SplitLines(r.stdout)], 1)

(* Outputs of ibdev2netdev *)

UpLine == <<"mlx5_0", " ", "port", " ", "1", " ", "==>", " ", "ib0", " ", "(Up)">>

DownLine == <<"mlx5_1", " ", "port", " ", "1", " ", "==>", " ", "ib1", " ", "(Down)">>

\* no separator
BannerLine == <<"no", " ", "devices">>

\* nothing to the right of the separator
NoIfaceLine == <<"mlx5_2", " ", "port", " ", "1", " ", "==>", " ">>

\* nothing to the left of the separator
NoDeviceLine == <<" ", "==>", " ", "ib3", " ", "(Up)">>

\* the separator twice
TwiceLine == <<"mlx5_4", " ", "==>", " ", "ib4", " ", "==>", " ", "ib5">>

EnumLines == {UpLine, DownLine, BannerLine, NoIfaceLine, NoDeviceLine, TwiceLine}

Texts(Kinds) == UNION {[1..n -> Kinds] : n \in 0..MaxLines}

\* How subprocess.run(["ibdev2netdev"]) can end
IbdevOutcomes ==
  {Completed(JoinLines(ls), <<>>, 0) : ls \in Texts(EnumLines)}
  \cup {Completed(<<>>, <<"ibdev2netdev", ":", " ", "no", " ", "devices", NL>>, 1),
        Completed(JoinLines(<<UpLine>>), <<"ibdev2netdev", ":", " ", "interrupted", NL>>, 1),
        Raises("TimeoutExpired"),
        Raises("FileNotFoundError")}

\* A collector's first step: run ibdev2netdev, then the loop up to its next command
StartIb(t) ==
  /\ pc = "idle"
  /\ \E p \in IbdevOutcomes :
       LET cmd == << <<"ibdev2netdev">> >>
           r == RunCommand(cmd, TRUE, p)
       IN /\ Becomes(IbCollector([Cur EXCEPT !.tool = t, !.first = r], r))
          /\ proc' = p
          /\ last' = r
          /\ file' = None
  /\ UNCHANGED <<faults, args, earlier>>

\* A secondary command may end in any way while faults remain, else as expected
Budget(p, Expected) ==
  /\ p \in Expected \/ faults < MaxFaults
  /\ faults' = IF p \in Expected THEN faults ELSE faults + 1

\* The first of the lines found by a search, 0 when it found none
FirstHit(hits) == IF hits = {} THEN 0 ELSE SetMin(hits)

(* ------------------------------------------------------------------ *)
(* getArpConfig                                                        *)
(* ------------------------------------------------------------------ *)

\* keys_map, in its order
KeysMap ==
  << <<"disable_ipv6", "disableIpv6">>, <<"arp_ignore", "arpIgnore">>,
     <<"arp_announce", "arpAnnounce">>, <<"rp_filter", "rpFilter">>,
     <<"arp_filter", "arpFilter">>, <<"arp_notify", "arpNotify">>,
     <<"arp_accept", "arpAccept">> >>

\* full_key = f"{iface}.{raw_key}"
FullKey(ifc, rawKey) == ifc \o <<".", rawKey>>

\* the literal " = "
EQ == <<" ", "=", " ">>

\* The value entry[camel_key] gets from one run of sysctl -a
SysctlValue(r, fullKey) ==
  IF r.rc # 0 THEN <<>>
  ELSE LET ls == SplitLines(r.stdout)
           hit == FirstHit({i \in 1..Len(ls) : StartsWith(ls[i], fullKey)})
       IN IF hit = 0 THEN <<>> ELSE Strip(Last(SplitOnce(ls[hit], EQ)))

\* One pass of the loop over keys_map, the runner having ended sysctl -a as r
ArpKey(s, r) ==
  IF r.raised THEN Throw(s, r.exc)
  ELSE LET key == KeysMap[s.keyIdx]
           e == Put(s.entry, key[2], PyStr(SysctlValue(r, FullKey(s.iface, key[1]))))
       IN IF s.keyIdx < Len(KeysMap)
          THEN [s EXCEPT !.entry = e, !.keyIdx = s.keyIdx + 1]
          ELSE EnterLoop([s EXCEPT !.entry = e, !.data = Append(s.data, e)], s.idx + 1)

\* sysctl -a printing the key as the code looks for it
SysctlExpected(ifc, rawKey) ==
  {Completed(JoinLines(<< <<"kernel.ostype", " ", "=", " ", "Linux">>,
                          FullKey(ifc, rawKey) \o <<" ", "=", " ", "1">> >>), <<>>, 0)}

SysctlOutcomes(ifc, rawKey) ==
  SysctlExpected(ifc, rawKey)
  \cup {Completed(JoinLines(<< <<"net.ipv4.conf.">> \o FullKey(ifc, rawKey) \o <<" ", "=", " ", "1">> >>),
                  <<>>, 0),
        Completed(JoinLines(<< FullKey(ifc, rawKey) >>), <<>>, 0),
        Completed(<<>>, <<"sysctl", ":", " ", "permission denied", NL>>, 255)}

getArpConfig == StartIb("getArpConfig")

ArpSysctl ==
  /\ pc = "sysctl"
  /\ \E p \in SysctlOutcomes(iface, KeysMap[keyIdx][1]) :
       LET r == RunCommand(<< <<"sysctl">>, <<"-a">> >>, TRUE, p)
       IN /\ Budget(p, SysctlExpected(iface, KeysMap[keyIdx][1]))
          /\ Becomes(ArpKey(Cur, r))
          /\ proc' = p
          /\ last' = r
          /\ file' = None
  /\ UNCHANGED <<args, earlier>>

(* ------------------------------------------------------------------ *)
(* Numbers in text                                                     *)
(* ------------------------------------------------------------------ *)

\* The decimal numerals the tools print
IsNumeral(lex) == \E n \in 0..MaxNum : ToString(n) = lex

NumeralValue(lex) == CHOOSE n \in 0..MaxNum : ToString(n) = lex

\* int(s) succeeds: s, stripped, is one numeral
IsInt(s) == Len(Strip(s)) = 1 /\ IsNumeral(Strip(s)[1])

\* int(s)
IntOf(s) == NumeralValue(Strip(s)[1])

\* The binary digits of n, most significant first
RECURSIVE Bits(_)
Bits(n) == IF n < 2 THEN <<ToString(n)>> ELSE Bits(n \div 2) \o <<ToString(n % 2)>>

\* bin(n), one character per lexeme
Bin(n) == <<"0", "b">> \o Bits(n)

\* s[-2:] of a one-character-per-lexeme string
LastTwo(s) == IF Len(s) <= 2 THEN s ELSE SubSeq(s, Len(s) - 1, Len(s))

\* s.zfill(2) of a one-character-per-lexeme string
ZFill2(s) == IF Len(s) = 0 THEN <<"0", "0">> ELSE IF Len(s) = 1 THEN <<"0">> \o s ELSE s

(* ------------------------------------------------------------------ *)
(* getLosslessNetworkConfig                                            *)
(* ------------------------------------------------------------------ *)

\* l.split()[1:]
WordsAfterFirst(l) == LET w == SplitWs(l) IN IF Len(w) <= 1 THEN <<>> ELSE Tail(w)

\* [i for i, v in enumerate(l.split()[1:]) if v == "1"], as the set of its members
EnabledPriorities(l) ==
  LET w == WordsAfterFirst(l) IN {i - 1 : i \in {j \in 1..Len(w) : w[j] = <<"1">>}}

\* The loop over the lines of mlnx_qos: the last line of each kind decides
RECURSIVE QosScan(_, _)
QosScan(ls, acc) ==
  IF ls = <<>> THEN acc
  ELSE LET l == Head(ls)
       IN QosScan(Tail(ls),
            IF Contains(l, <<"Priority trust state">>)
            THEN [acc EXCEPT !.trust = Strip(Last(Split(l, <<":">>)))]
            ELSE IF Contains(l, <<"enabled">>) /\ ~Contains(l, <<"priority">>)
                 THEN [acc EXCEPT !.enabled = EnabledPriorities(l)]
                 ELSE IF Contains(l, <<"tsa", ":">>)
                      THEN [acc EXCEPT !.tsa = Strip(Last(Split(l, <<"tsa", ":">>)))]
                      ELSE acc)

\* The three PFC fields from one run of mlnx_qos -i iface
PfcFields(e, r) ==
  IF r.rc = 0
  THEN LET q == QosScan(SplitLines(r.stdout), [trust |-> <<>>, tsa |-> <<>>, enabled |-> {}])
           prio == IF q.enabled = {} THEN <<"-1">> ELSE <<ToString(SetMin(q.enabled))>>
       IN Put(Put(Put(e, "pfcPriority", PyStr(prio)), "pfcTrust", PyStr(q.trust)),
              "pfcTsa", PyStr(q.tsa))
  ELSE Put(Put(Put(e, "pfcPriority", PyStr(<<>>)), "pfcTrust", PyStr(<<>>)),
           "pfcTsa", PyStr(<<>>))

\* The file /sys/class/infiniband/<device>/tc/1/traffic_class as the call finds it
SysFile(exists, readable, content) ==
  [exists |-> exists, readable |-> readable, content |-> content]

\* entry["ecnEnable"]
EcnEnable(f) ==
  IF f.exists
  THEN IF f.readable /\ IsInt(f.content)
       THEN ZFill2(LastTwo(Bin(IntOf(f.content))))
       ELSE <<"0", "0">>
  ELSE <<"0", "0">>

\* LosslessEntity leaving out the interface whose mlnx_qos failed
LosslessEntityDropping(s, r, f) ==
  IF r.raised THEN Throw(s, r.exc)
  ELSE IF r.rc # 0 THEN EnterLoop(s, s.idx + 1)
  ELSE LET e == Put(PfcFields(s.entry, r), "ecnEnable", PyStr(EcnEnable(f)))
       IN EnterLoop([s EXCEPT !.entry = e, !.data = Append(s.data, e)], s.idx + 1)

\* One pass of the loop: mlnx_qos ended as r, the traffic_class file is f
LosslessEntity(s, r, f) ==
  IF r.raised THEN Throw(s, r.exc)
  ELSE LET e == Put(PfcFields(s.entry, r), "ecnEnable", PyStr(EcnEnable(f)))
       IN EnterLoop([s EXCEPT !.entry = e, !.data = Append(s.data, e)], s.idx + 1)

QosExpected ==
  {Completed(JoinLines(<< <<"Priority trust state", ":", " ", "pcp">>,
                          <<"PFC configuration", ":">>,
                          <<"priority", " ", "0", " ", "1", " ", "2", " ", "3">>,
                          <<"enabled", " ", "0", " ", "0", " ", "0", " ", "1">>,
                          <<"tc", ":", " ", "0", " ", "ratelimit", ":", " ", "unlimited", ",",
                            " ", "tsa", ":", " ", "vendor">> >>), <<>>, 0)}

QosOutcomes ==
  QosExpected
  \cup {Completed(JoinLines(<< <<"PFC configuration", ":">>,
                              <<"enabled", " ", "0", " ", "0", " ", "0", " ", "0">> >>), <<>>, 0),
        Completed(JoinLines(<< <<"Priority trust state", ":", " ", "dscp">> >>), <<>>, 0),
        Completed(<<>>, <<"mlnx_qos", ":", " ", "no such device", NL>>, 1),
        Raises("TimeoutExpired")}

EcnExpected == {SysFile(TRUE, TRUE, <<"2", NL>>)}

EcnFiles ==
  EcnExpected
  \cup {SysFile(FALSE, FALSE, <<>>), SysFile(TRUE, FALSE, <<>>), SysFile(TRUE, TRUE, <<"n/a", NL>>)}
  \cup {SysFile(TRUE, TRUE, <<ToString(n), NL>>) : n \in 0..MaxNum}

getLosslessNetworkConfig == StartIb("getLosslessNetworkConfig")

LosslessQos ==
  /\ pc = "mlnx_qos"
  /\ \E p \in QosOutcomes, f \in EcnFiles :
       LET r == RunCommand(<< <<"mlnx_qos">>, <<"-i">>, iface >>, TRUE, p)
           spent == (IF p \in QosExpected THEN 0 ELSE 1) + (IF f \in EcnExpected THEN 0 ELSE 1)
       IN /\ faults + spent <= MaxFaults
          /\ faults' = faults + spent
          /\ Becomes(LosslessEntity(Cur, r, f))
          /\ proc' = p
          /\ last' = r
          /\ file' = IF r.raised THEN None ELSE Some(f)
  /\ UNCHANGED <<args, earlier>>

(* ------------------------------------------------------------------ *)
(* getPcieLinkSpeedForNic                                              *)
(* ------------------------------------------------------------------ *)

\* The lspci line the collectors look for: "LnkSta:" in l and "Speed" in l
IsLnkSta(l) == Contains(l, <<"LnkSta", ":">>) /\ Contains(l, <<"Speed">>)

\* After ethtool -i iface ended as r: bdf, then `continue` or on to lspci
PcieBusInfo(s, r) ==
  IF r.raised THEN Throw(s, r.exc)
  ELSE LET ls == SplitLines(r.stdout)
           hit == IF r.rc = 0 THEN FirstHit({i \in 1..Len(ls) : Contains(ls[i], <<"bus-info">>)}) ELSE 0
           parts == IF hit = 0 THEN <<>> ELSE SplitOnce(ls[hit], <<":">>)
       IN IF hit # 0 /\ Len(parts) < 2 THEN Throw(s, "IndexError")
          ELSE LET b == IF hit = 0 THEN <<>> ELSE Strip(parts[2])
               IN IF b = <<>> THEN EnterLoop(s, s.idx + 1)
                  ELSE [s EXCEPT !.bdf = b, !.pc = "lspci_nic"]

\* lnksta of getPcieLinkSpeedForNic from one run of lspci -vvvs bdf
NicLnkSta(r) ==
  LET ls == SplitLines(r.stdout)
      hit == IF r.rc = 0 THEN FirstHit({i \in 1..Len(ls) : IsLnkSta(ls[i])}) ELSE 0
  IN IF hit = 0 THEN <<"N/A">> ELSE Strip(SplitOnce(ls[hit], <<":">>)[2])

\* After lspci ended as r: the record, and the loop goes on
PcieRecord(s, r) ==
  IF r.raised THEN Throw(s, r.exc)
  ELSE LET e == << <<"interface", PyStr(s.iface)>>, <<"busInfo", PyStr(s.bdf)>>,
                   <<"lnkSta", PyStr(NicLnkSta(r))>> >>
       IN EnterLoop([s EXCEPT !.entry = e, !.data = Append(s.data, e)], s.idx + 1)

BdfText == <<"0000", ":", "9b", ":", "00.0">>

EthtoolIExpected ==
  {Completed(JoinLines(<< <<"driver", ":", " ", "mlx5_core">>,
                          <<"bus-info", ":", " ">> \o BdfText >>), <<>>, 0)}

EthtoolIOutcomes ==
  EthtoolIExpected
  \cup {Completed(JoinLines(<< <<"driver", ":", " ", "mlx5_core">> >>), <<>>, 0),
        Completed(JoinLines(<< <<"driver", ":", " ", "mlx5_core">>, <<"bus-info", ":", " ">> >>), <<>>, 0),
        Completed(JoinLines(<< <<"no", " ", "bus-info", " ", "available">> >>), <<>>, 0),
        Completed(<<>>, <<"Cannot get driver information", ":", " ", "No such device", NL>>, 71),
        Raises("TimeoutExpired")}

LspciExpected ==
  {Completed(JoinLines(<< <<"LnkCap", ":", " ", "Port #0", ",", " ", "Speed", " ", "16GT/s", ",", " ", "Width", " ", "x16">>,
                          <<"LnkSta", ":", " ", "Speed", " ", "16GT/s", ",", " ", "Width", " ", "x16">> >>),
             <<>>, 0)}

LspciOutcomes ==
  LspciExpected
  \cup {Completed(JoinLines(<< <<"Status", ":", " ", "Speed", " ", "Downgraded">> >>), <<>>, 0),
        Completed(JoinLines(<< <<"LnkCap", ":", " ", "Port #0">> >>), <<>>, 0),
        Completed(<<>>, <<"lspci", ":", " ", "Cannot open device", NL>>, 1),
        Raises("TimeoutExpired")}

getPcieLinkSpeedForNic == StartIb("getPcieLinkSpeedForNic")

PcieEthtool ==
  /\ pc = "ethtool_i"
  /\ \E p \in EthtoolIOutcomes :
       LET r == RunCommand(<< <<"ethtool">>, <<"-i">>, iface >>, TRUE, p)
       IN /\ Budget(p, EthtoolIExpected)
          /\ Becomes(PcieBusInfo(Cur, r))
          /\ proc' = p
          /\ last' = r
          /\ file' = None
  /\ UNCHANGED <<args, earlier>>

PcieLspci ==
  /\ pc = "lspci_nic"
  /\ \E p \in LspciOutcomes :
       LET r == RunCommand(<< <<"lspci">>, <<"-vvvs">>, bdf >>, TRUE, p)
       IN /\ Budget(p, LspciExpected)
          /\ Becomes(PcieRecord(Cur, r))
          /\ proc' = p
          /\ last' = r
          /\ file' = None
  /\ UNCHANGED <<args, earlier>>

(* ------------------------------------------------------------------ *)
(* getNicCongestionStatsTx, getSwitchCongestionStatsRx                 *)
(* ------------------------------------------------------------------ *)

\* PauseCount starting from "" instead of "0"
PauseCountBlank(r, label) ==
  LET ls == SplitLines(r.stdout)
      hit == IF r.rc = 0 THEN FirstHit({i \in 1..Len(ls) : Contains(ls[i], <<label>>)}) ELSE 0
  IN IF hit = 0 THEN <<>> ELSE Strip(Last(Split(ls[hit], <<":">>)))

\* tx_pause / rx_pause from one run of ethtool -S iface
PauseCount(r, label) ==
  LET ls == SplitLines(r.stdout)
      hit == IF r.rc = 0 THEN FirstHit({i \in 1..Len(ls) : Contains(ls[i], <<label>>)}) ELSE 0
  IN IF hit = 0 THEN <<"0">> ELSE Strip(Last(Split(ls[hit], <<":">>)))

\* One pass of the loop of either collector
PauseRecord(s, r, label, field) ==
  IF r.raised THEN Throw(s, r.exc)
  ELSE LET e == << <<"interface", PyStr(s.iface)>>, <<field, PyStr(PauseCount(r, label))>> >>
       IN EnterLoop([s EXCEPT !.entry = e, !.data = Append(s.data, e)], s.idx + 1)

EthtoolSExpected ==
  {Completed(JoinLines(<< <<"NIC statistics", ":">>,
                          <<" ", "tx_pause_ctrl_phy", ":", " ", "5">>,
                          <<" ", "rx_pause_ctrl_phy", ":", " ", "7">> >>), <<>>, 0)}

EthtoolSOutcomes ==
  EthtoolSExpected
  \cup {Completed(JoinLines(<< <<"NIC statistics", ":">>, <<" ", "rx_packets", ":", " ", "9">> >>), <<>>, 0),
        Completed(<<>>, <<"Cannot get stats strings information", NL>>, 94),
        Raises("TimeoutExpired")}

getNicCongestionStatsTx == StartIb("getNicCongestionStatsTx")

TxEthtool ==
  /\ pc = "ethtool_S_tx"
  /\ \E p \in EthtoolSOutcomes :
       LET r == RunCommand(<< <<"ethtool">>, <<"-S">>, iface >>, TRUE, p)
       IN /\ Budget(p, EthtoolSExpected)
          /\ Becomes(PauseRecord(Cur, r, "tx_pause_ctrl_phy", "txPauseCtrlPhy"))
          /\ proc' = p
          /\ last' = r
          /\ file' = None
  /\ UNCHANGED <<args, earlier>>

getSwitchCongestionStatsRx == StartIb("getSwitchCongestionStatsRx")

RxEthtool ==
  /\ pc = "ethtool_S_rx"
  /\ \E p \in EthtoolSOutcomes :
       LET r == RunCommand(<< <<"ethtool">>, <<"-S">>, iface >>, TRUE, p)
       IN /\ Budget(p, EthtoolSExpected)
          /\ Becomes(PauseRecord(Cur, r, "rx_pause_ctrl_phy", "rxPauseCtrlPhy"))
          /\ proc' = p
          /\ last' = r
          /\ file' = None
  /\ UNCHANGED <<args, earlier>>

(* ------------------------------------------------------------------ *)
(* getNvmePcieLinkSpeed                                                *)
(* ------------------------------------------------------------------ *)

\* the literal "/dev/nvme"
DEV_NVME == <<"/dev/", "n", "vme">>

\* dev_name = line.split("/dev/")[1].split("n")[0]
DevName(line) == Split(Split(line, <<"/dev/">>)[2], <<"n">>)[1]

\* The loop that builds devices: each name once, in first-seen order
RECURSIVE NvmeDevices(_, _)
NvmeDevices(ls, acc) ==
  IF ls = <<>> THEN acc
  ELSE LET l == Head(ls)
       IN NvmeDevices(Tail(ls),
            IF Contains(l, DEV_NVME) /\ ~(\E i \in 1..Len(acc) : acc[i] = DevName(l))
            THEN Append(acc, DevName(l))
            ELSE acc)

\* The loop over devices from position `from`: on to the next address file, or return
NvmeLoop(s, from) ==
  IF from > Len(s.devices) THEN Finish([s EXCEPT !.idx = from], MakeResponse(0, Some(s.data), None))
  ELSE [s EXCEPT !.idx = from, !.bdf = <<>>, !.pc = "nvme_address"]

\* getNvmePcieLinkSpeed from its first command, which the runner ended as r
NvmeCollector(s, r) ==
  IF r.raised THEN Throw(s, r.exc)
  ELSE IF r.rc # 0 THEN PrereqFailed(s, r)
  ELSE LET ls == SplitLines(r.stdout)
       IN NvmeLoop([s EXCEPT !.lines = ls, !.devices = NvmeDevices(ls, <<>>)], 1)

\* /sys/class/nvme/<dev>/address is f: `continue`, or bdf and on to lspci
NvmeAddr(s, f) ==
  IF ~f.exists \/ ~f.readable THEN NvmeLoop(s, s.idx + 1)
  ELSE [s EXCEPT !.bdf = Strip(f.content), !.pc = "lspci_nvme"]

\* lnksta of getNvmePcieLinkSpeed from one run of lspci -vvvs bdf
NvmeLnkSta(r) ==
  LET ls == SplitLines(r.stdout)
      hit == IF r.rc = 0
             THEN FirstHit({i \in 1..Len(ls) :
                              IsLnkSta(ls[i]) \/ Contains(ls[i], <<"Speed", " ", "Downgraded">>)})
             ELSE 0
  IN IF hit = 0 THEN <<"N/A">>
     ELSE IF IsLnkSta(ls[hit]) THEN Strip(SplitOnce(ls[hit], <<":">>)[2])
     ELSE <<"Speed", " ", "Downgraded">>

\* After lspci ended as r: the record, and the loop goes on
NvmeRecord(s, r) ==
  IF r.raised THEN Throw(s, r.exc)
  ELSE LET e == << <<"nvme", PyStr(s.devices[s.idx])>>, <<"busInfo", PyStr(s.bdf)>>,
                   <<"lnkSta", PyStr(NvmeLnkSta(r))>> >>
       IN NvmeLoop([s EXCEPT !.entry = e, !.data = Append(s.data, e)], s.idx + 1)

(* Outputs of nvme list *)

NvmeHeader == <<"Node", " ", "SN", " ", "Model">>

Nvme0n1 == <<"/dev/", "n", "vme", "0", "n", "1", " ", "S4EWNX0", " ", "SAMSUNG">>

Nvme1n1 == <<"/dev/", "n", "vme", "1", "n", "1", " ", "S4EWNX1", " ", "SAMSUNG">>

\* a line that names another block device before the namespace
NvmeMapped == <<"/dev/", "dm-0", " ", "/dev/", "n", "vme", "2", "n", "1">>

NvmeLines == {NvmeHeader, Nvme0n1, Nvme1n1, NvmeMapped}

NvmeListOutcomes ==
  {Completed(JoinLines(ls), <<>>, 0) : ls \in Texts(NvmeLines)}
  \cup {Completed(<<>>, <<"nvme", ":", " ", "permission denied", NL>>, 1),
        Completed(JoinLines(<<Nvme0n1>>), <<"nvme", ":", " ", "interrupted", NL>>, 1),
        Raises("TimeoutExpired"),
        Raises("FileNotFoundError")}

\* The address file of a named controller holds its BDF
AddrExpected == {SysFile(TRUE, TRUE, <<"0000", ":", "17", ":", "00.0", NL>>)}

\* /sys/class/nvme//address, the path of the empty name, is no sysfs entry
AddrFiles(dev) ==
  IF dev = <<>> THEN {SysFile(FALSE, FALSE, <<>>)}
  ELSE AddrExpected \cup {SysFile(FALSE, FALSE, <<>>), SysFile(TRUE, FALSE, <<>>)}

getNvmePcieLinkSpeed ==
  /\ pc = "idle"
  /\ \E p \in NvmeListOutcomes :
       LET r == RunCommand(<< <<"nvme">>, <<"list">> >>, TRUE, p)
       IN /\ Becomes(NvmeCollector([Cur EXCEPT !.tool = "getNvmePcieLinkSpeed", !.first = r], r))
          /\ proc' = p
          /\ last' = r
          /\ file' = None
  /\ UNCHANGED <<faults, args, earlier>>

NvmeAddress ==
  /\ pc = "nvme_address"
  /\ \E f \in AddrFiles(devices[idx]) :
       /\ f \in AddrExpected \/ devices[idx] = <<>> \/ faults < MaxFaults
       /\ faults' = IF f \in AddrExpected \/ devices[idx] = <<>> THEN faults ELSE faults + 1
       /\ Becomes(NvmeAddr(Cur, f))
       /\ file' = Some(f)
  /\ UNCHANGED <<proc, last, args, earlier>>

NvmeLspci ==
  /\ pc = "lspci_nvme"
  /\ \E p \in LspciOutcomes :
       LET r == RunCommand(<< <<"lspci">>, <<"-vvvs">>, bdf >>, TRUE, p)
       IN /\ Budget(p, LspciExpected)
          /\ Becomes(NvmeRecord(Cur, r))
          /\ proc' = p
          /\ last' = r
          /\ file' = None
  /\ UNCHANGED <<args, earlier>>

(* ------------------------------------------------------------------ *)
(* getCpuUsage                                                         *)
(* ------------------------------------------------------------------ *)

\* float(s) succeeds: s, stripped, is a numeral, or a numeral, a point and one digit
IsFloat(s) ==
  LET w == Strip(s)
  IN \/ Len(w) = 1 /\ IsNumeral(w[1])
     \/ Len(w) = 3 /\ IsNumeral(w[1]) /\ w[2] = "." /\ IsNumeral(w[3]) /\ NumeralValue(w[3]) < 10

\* float(s), in tenths
TenthsOf(s) ==
  LET w == Strip(s)
  IN IF Len(w) = 1 THEN 10 * NumeralValue(w[1])
     ELSE 10 * NumeralValue(w[1]) + NumeralValue(w[3])

\* %g-like rendering, which drops a zero decimal
OneDecimalShortest(tenths) ==
  IF tenths % 10 = 0 THEN <<ToString(tenths \div 10)>>
  ELSE <<ToString(tenths \div 10), ".", ToString(tenths % 10)>>

\* f"{x:.1f}" and str(x) of a number of tenths
OneDecimal(tenths) == <<ToString(tenths \div 10), ".", ToString(tenths % 10)>>

\* CpuUsage handing back the threshold half of the record on a parse failure
CpuUsagePartial(s, r) ==
  IF r.raised THEN Throw(s, r.exc)
  ELSE IF r.rc # 0 THEN PrereqFailed(s, r)
  ELSE IF ~IsFloat(Strip(r.stdout))
       THEN Finish(s, MakeResponse(1003, Some(<< << <<"cpuThreshold", PyStr(<<"80">>)>> >> >>),
                                   Some(<<"Parse CPU usage failed">>)))
       ELSE Finish(s, MakeResponse(0,
              Some(<< << <<"cpuUsage", PyStr(OneDecimal(TenthsOf(Strip(r.stdout))))>>,
                         <<"cpuThreshold", PyStr(<<"80">>)>> >> >>), None))

\* getCpuUsage, the runner having ended the top pipeline as r
CpuUsage(s, r) ==
  IF r.raised THEN Throw(s, r.exc)
  ELSE IF r.rc # 0 THEN PrereqFailed(s, r)
  ELSE IF ~IsFloat(Strip(r.stdout))
       THEN Finish(s, MakeResponse(1003, Some(<<>>), Some(<<"Parse CPU usage failed">>)))
       ELSE Finish(s, MakeResponse(0,
              Some(<< << <<"cpuUsage", PyStr(OneDecimal(TenthsOf(Strip(r.stdout))))>>,
                         <<"cpuThreshold", PyStr(<<"80">>)>> >> >>), None))

TopCommand == <<"top -bn1 | grep 'Cpu(s)' | awk '{print $2}'">>

TopOutcomes ==
  {Completed(<<"1", ".", "7", NL>>, <<>>, 0),
   Completed(<<"12", NL>>, <<>>, 0),
   Completed(<<"0", ".", "0", NL>>, <<>>, 0),
   Completed(<<>>, <<>>, 0),
   Completed(<<"us", ",", NL>>, <<>>, 0),
   Completed(<<>>, <<"top", ":", " ", "failed tty get", NL>>, 1),
   Raises("TimeoutExpired")}

getCpuUsage ==
  /\ pc = "idle"
  /\ \E p \in TopOutcomes :
       LET r == RunCommand(<<TopCommand>>, FALSE, p)
       IN /\ Becomes(CpuUsage([Cur EXCEPT !.tool = "getCpuUsage", !.first = r], r))
          /\ proc' = p
          /\ last' = r
          /\ file' = None
  /\ UNCHANGED <<faults, args, earlier>>

(* ------------------------------------------------------------------ *)
(* getMemoryUsage                                                      *)
(* ------------------------------------------------------------------ *)

\* round(x, 1) of the quotient num / den, in tenths (ties to even)
RoundTenths(num, den) ==
  LET q == (10 * num) \div den
      rem == (10 * num) % den
  IN IF 2 * rem > den \/ (2 * rem = den /\ q % 2 = 1) THEN q + 1 ELSE q

MemParseAvailableFromUsed(ls) ==
  LET hit == FirstHit({i \in 1..Len(ls) : StartsWith(ls[i], <<"Mem", ":">>)})
      parts == SplitWs(ls[hit])
  IN IF hit = 0 THEN [ok |-> FALSE, message |-> <<"No Mem line">>]
     ELSE IF Len(parts) < 2
          THEN [ok |-> FALSE, message |-> <<"Parse error: ", "list index out of range">>]
     ELSE IF ~IsInt(parts[2])
          THEN [ok |-> FALSE, message |-> <<"Parse error: ", "invalid literal for int() with base 10: '">>
                                           \o parts[2] \o <<"'">>]
     ELSE IF Len(parts) < 3
          THEN [ok |-> FALSE, message |-> <<"Parse error: ", "list index out of range">>]
     ELSE IF ~IsInt(parts[3])
          THEN [ok |-> FALSE, message |-> <<"Parse error: ", "invalid literal for int() with base 10: '">>
                                           \o parts[3] \o <<"'">>]
     ELSE IF Len(parts) > 6 /\ ~IsInt(parts[7])
          THEN [ok |-> FALSE, message |-> <<"Parse error: ", "invalid literal for int() with base 10: '">>
                                           \o parts[7] \o <<"'">>]
     ELSE IF IntOf(parts[2]) = 0
          THEN [ok |-> FALSE, message |-> <<"Parse error: ", "division by zero">>]
     ELSE [ok |-> TRUE, message |-> <<>>,
           total |-> IntOf(parts[2]), used |-> IntOf(parts[3]),
           available |-> IF Len(parts) > 6 THEN IntOf(parts[7]) ELSE IntOf(parts[2]) - IntOf(parts[3]),
           usage |-> RoundTenths(100 * IntOf(parts[3]), IntOf(parts[2]))]

\* The try block of getMemoryUsage on the lines of free -m
MemParse(ls) ==
  LET hit == FirstHit({i \in 1..Len(ls) : StartsWith(ls[i], <<"Mem", ":">>)})
      parts == SplitWs(ls[hit])
  IN IF hit = 0 THEN [ok |-> FALSE, message |-> <<"No Mem line">>]
     ELSE IF Len(parts) < 2
          THEN [ok |-> FALSE, message |-> <<"Parse error: ", "list index out of range">>]
     ELSE IF ~IsInt(parts[2])
          THEN [ok |-> FALSE, message |-> <<"Parse error: ", "invalid literal for int() with base 10: '">>
                                           \o parts[2] \o <<"'">>]
     ELSE IF Len(parts) < 3
          THEN [ok |-> FALSE, message |-> <<"Parse error: ", "list index out of range">>]
     ELSE IF ~IsInt(parts[3])
          THEN [ok |-> FALSE, message |-> <<"Parse error: ", "invalid literal for int() with base 10: '">>
                                           \o parts[3] \o <<"'">>]
     ELSE IF Len(parts) > 6 /\ ~IsInt(parts[7])
          THEN [ok |-> FALSE, message |-> <<"Parse error: ", "invalid literal for int() with base 10: '">>
                                           \o parts[7] \o <<"'">>]
     ELSE IF IntOf(parts[2]) = 0
          THEN [ok |-> FALSE, message |-> <<"Parse error: ", "division by zero">>]
     ELSE [ok |-> TRUE, message |-> <<>>,
           total |-> IntOf(parts[2]), used |-> IntOf(parts[3]),
           available |-> IF Len(parts) > 6 THEN IntOf(parts[7]) ELSE 0,
           usage |-> RoundTenths(100 * IntOf(parts[3]), IntOf(parts[2]))]

\* getMemoryUsage, the runner having ended free -m as r
MemoryUsage(s, r) ==
  IF r.raised THEN Throw(s, r.exc)
  ELSE IF r.rc # 0 THEN PrereqFailed(s, r)
  ELSE LET m == MemParse(SplitLines(r.stdout))
       IN IF ~m.ok THEN Finish(s, MakeResponse(1003, Some(<<>>), Some(m.message)))
          ELSE Finish(s, MakeResponse(0,
                 Some(<< << <<"memUsage", PyStr(OneDecimal(m.usage))>>,
                            <<"memTotal", PyStr(<<ToString(m.total)>>)>>,
                            <<"memUsed", PyStr(<<ToString(m.used)>>)>>,
                            <<"memAvailable", PyStr(<<ToString(m.available)>>)>>,
                            <<"memThreshold", PyStr(<<"80">>)>> >> >>), None))

FreeHeader == <<" ", "total", " ", "used", " ", "free", " ", "shared", " ", "buff/cache", " ", "available">>

SwapLine == <<"Swap", ":", " ", "0", " ", "0", " ", "0">>

\* A Mem: line of the given columns
RECURSIVE Columns(_)
Columns(ws) == IF ws = <<>> THEN <<>> ELSE <<" ", Head(ws)>> \o Columns(Tail(ws))

MemLine(ws) == <<"Mem", ":">> \o Columns(ws)

FreeOutcomes ==
  {Completed(JoinLines(<<FreeHeader, MemLine(<<ToString(t), ToString(u), "1", "0", "2", ToString(t - u)>>), SwapLine>>),
             <<>>, 0) : t \in 1..MaxNum, u \in {0, 1, 2, 3}}
  \cup {Completed(JoinLines(<<FreeHeader, SwapLine>>), <<>>, 0),
        Completed(<<>>, <<>>, 0),
        Completed(JoinLines(<<FreeHeader, MemLine(<<"8", "2">>)>>), <<>>, 0),
        Completed(JoinLines(<<FreeHeader, MemLine(<<"8">>)>>), <<>>, 0),
        Completed(JoinLines(<<FreeHeader, MemLine(<<>>)>>), <<>>, 0),
        Completed(JoinLines(<<FreeHeader, MemLine(<<"8", "2", "1", "0", "2", "n/a">>)>>), <<>>, 0),
        Completed(JoinLines(<<FreeHeader, MemLine(<<"8Gi", "2Gi", "1", "0", "2", "6">>)>>), <<>>, 0),
        Completed(JoinLines(<<FreeHeader, MemLine(<<"0", "0", "0", "0", "0", "0">>)>>), <<>>, 0),
        Completed(<<>>, <<"free", ":", " ", "failed to read /proc/meminfo", NL>>, 1),
        Raises("TimeoutExpired"),
        Raises("FileNotFoundError")}

getMemoryUsage ==
  /\ pc = "idle"
  /\ \E p \in FreeOutcomes :
       LET r == RunCommand(<< <<"free">>, <<"-m">> >>, TRUE, p)
       IN /\ Becomes(MemoryUsage([Cur EXCEPT !.tool = "getMemoryUsage", !.first = r], r))
          /\ proc' = p
          /\ last' = r
          /\ file' = None
  /\ UNCHANGED <<faults, args, earlier>>

(* ------------------------------------------------------------------ *)
(* Direct calls of CommandExecutor.execute and of the two builders     *)
(* ------------------------------------------------------------------ *)

ListCommand(cmd) == [cmd |-> cmd, isList |-> TRUE]

ShellCommand(cmd) == [cmd |-> cmd, isList |-> FALSE]

Commands ==
  {ListCommand(<< <<"ibdev2netdev">> >>),
   ListCommand(<< <<"ethtool">>, <<"-i">>, <<"ib0">> >>),
   ShellCommand(<<TopCommand>>)}

RunExceptions == {"TimeoutExpired", "FileNotFoundError", "PermissionError", "UnicodeDecodeError"}

RunOutcomes ==
  {Completed(out, err, rc) : out \in {<<>>, <<" ", "ok", " ", "1", " ", NL>>},
                             err \in {<<>>, <<NL, "warning", NL>>},
                             rc \in {0, 1, 255}}
  \cup {Raises(e) : e \in RunExceptions}

\* CommandExecutor(timeout).execute(cmd, shell)
CallExecute ==
  /\ pc = "idle"
  /\ \E c \in Commands, shell \in BOOLEAN, t \in 0..MaxNum, p \in RunOutcomes :
       LET r == Execute(t, c.cmd, c.isList, p)
       IN /\ args' = [op |-> "execute", timeout |-> t, cmd |-> c.cmd, isList |-> c.isList,
                      shell |-> shell]
          /\ proc' = p
          /\ last' = r
          /\ file' = None
          /\ Becomes(IF r.raised THEN Throw([Cur EXCEPT !.tool = "execute"], r.exc)
                     ELSE Finish([Cur EXCEPT !.tool = "execute"], <<r.stdout, r.stderr, r.rc>>))
  /\ UNCHANGED <<faults, earlier>>

RecordAB == << <<"a", PyInt(<<"1">>)>>, <<"b", PyStr(<<"x">>)>> >>

RecordB == << <<"b", PyStr(<<"y">>)>> >>

RecordMixed ==
  << <<"up", PyBool(<<"True">>)>>, <<"load", PyFloat(<<"1", ".", "5">>)>>,
     <<"name", PyStr(<<>>)>>, <<"down", PyBool(<<"False">>)>> >>

RecordQuoted == << <<"lnkSta", PyStr(<<"Speed", " ", "\"", "16GT/s", "\"", ",", " ", "x16", "}">>)>> >>

DataArgs ==
  {None, Some(<<>>), Some(<<RecordAB>>), Some(<<RecordMixed>>), Some(<<RecordAB, RecordB>>),
   Some(<<RecordB, RecordAB>>), Some(<<RecordQuoted, RecordMixed>>)}

\* a message with a quoted word, a backslash and a line break in it
QuotedMessage == <<"free failed: ", "\"", "/proc", "\\", "meminfo", "\"", "\n", "denied">>

MessageArgs == {None, Some(<<>>), Some(<<"custom message">>), Some(QuotedMessage)}

\* ResponseBuilder().build(code, data, message)
CallBuild ==
  /\ pc = "idle"
  /\ \E c \in ErrorCode, d \in DataArgs, m \in MessageArgs :
       /\ args' = [op |-> "build", code |-> c, data |-> d, message |-> m]
       /\ Becomes(Finish([Cur EXCEPT !.tool = "build"], Build(c, d, m)))
  /\ UNCHANGED <<proc, last, file, faults, earlier>>

\* _make_response(code, data, message)
CallMakeResponse ==
  /\ pc = "idle"
  /\ \E c \in ErrorCode \cup {MaxNum}, d \in DataArgs, m \in MessageArgs :
       /\ args' = [op |-> "_make_response", code |-> c, data |-> d, message |-> m]
       /\ Becomes(Finish([Cur EXCEPT !.tool = "_make_response"], MakeResponse(c, d, m)))
  /\ UNCHANGED <<proc, last, file, faults, earlier>>

(* ------------------------------------------------------------------ *)
(* The server takes the next request                                   *)
(* ------------------------------------------------------------------ *)

EndCallKeepingData ==
  /\ pc = "done"
  /\ pc' = "idle"
  /\ tool' = "none"
  /\ lines' = <<>>
  /\ devices' = <<>>
  /\ idx' = 0
  /\ iface' = <<>>
  /\ device' = <<>>
  /\ bdf' = <<>>
  /\ entry' = <<>>
  /\ keyIdx' = 0
  /\ data' = data
  /\ result' = NoResult
  /\ first' = NoLast
  /\ proc' = NoProc
  /\ last' = NoLast
  /\ file' = None
  /\ faults' = 0
  /\ args' = NoArgs

\* The call is over: its locals are gone and the server awaits the next request
EndCall ==
  /\ pc = "done"
  /\ pc' = "idle"
  /\ tool' = "none"
  /\ lines' = <<>>
  /\ devices' = <<>>
  /\ idx' = 0
  /\ iface' = <<>>
  /\ device' = <<>>
  /\ bdf' = <<>>
  /\ entry' = <<>>
  /\ keyIdx' = 0
  /\ data' = <<>>
  /\ result' = NoResult
  /\ first' = NoLast
  /\ proc' = NoProc
  /\ last' = NoLast
  /\ file' = None
  /\ faults' = 0
  /\ args' = NoArgs

Reset == EndCall /\ UNCHANGED earlier

\* The same step, seen by an observer of the session
ResetSeen == EndCall /\ earlier' = TRUE

Next ==
  \/ getArpConfig
  \/ ArpSysctl
  \/ getLosslessNetworkConfig
  \/ LosslessQos
  \/ getPcieLinkSpeedForNic
  \/ PcieEthtool
  \/ PcieLspci
  \/ getNicCongestionStatsTx
  \/ TxEthtool
  \/ getSwitchCongestionStatsRx
  \/ RxEthtool
  \/ getNvmePcieLinkSpeed
  \/ NvmeAddress
  \/ NvmeLspci
  \/ getCpuUsage
  \/ getMemoryUsage
  \/ CallExecute
  \/ CallBuild
  \/ CallMakeResponse
  \/ Reset

Spec == Init /\ [][Next]_vars

\* The session with its observer
NextSeen == Next \/ ResetSeen

SpecSeen == Init /\ [][NextSeen]_vars

(* ------------------------------------------------------------------ *)
(* Properties                                                          *)
(* ------------------------------------------------------------------ *)

Collectors == IbTools \cup {"getNvmePcieLinkSpeed", "getCpuUsage", "getMemoryUsage"}

\* A collector call has ended
Ended == pc = "done" /\ tool \in Collectors

\* ... by returning an envelope
Answered == Ended /\ result.kind = "returned"

Response == result.value.structuredContent.response

\* C1: for every collector, a non-zero exit code of its first command gives an
\* envelope with code 1002 (COMMAND_EXECUTION_FAILED) and data == [].
C1_PrereqFailureIs1002 ==
  (Ended /\ first.rc # 0) =>
    /\ result.kind = "returned"
    /\ Response.code = COMMAND_EXECUTION_FAILED
    /\ Response.data = <<>>

\* C1 witness: getMemoryUsage answered 1002 after free exited 1
C1_Witness ==
  /\ Answered
  /\ tool = "getMemoryUsage"
  /\ proc.kind = "completed"
  /\ first.rc = 1
  /\ Response.code = 1002
  /\ Response.data = <<>>

\* C2: an envelope whose code is not 0 always carries data == []: no records are
\* returned together with an error code.
C2_ErrorHasNoData ==
  (Answered /\ Response.code # SUCCESS) => Response.data = <<>>

\* C2 witness: getCpuUsage answered 1003 on unparsable output of a command that
\* exited 0
C2_Witness ==
  /\ Answered
  /\ tool = "getCpuUsage"
  /\ first.rc = 0
  /\ first.stdout # <<>>
  /\ Response.code = PARSE_FAILED
  /\ Response.data = <<>>

\* C3: every collector invocation ends by returning an envelope, whatever the
\* commands print: no output line makes it end with an uncaught exception.
C3_AlwaysAnEnvelope == Ended => result.kind = "returned"

\* The positions at which a collector runs a per-entity command or reads a
\* per-entity file
SecondaryPcs ==
  {"sysctl", "mlnx_qos", "ethtool_i", "lspci_nic", "ethtool_S_tx", "ethtool_S_rx",
   "nvme_address", "lspci_nvme"}

\* This step ran a secondary command that did not exit 0, or found the address
\* file of an NVMe controller absent or unreadable
SecondaryFailed ==
  \/ pc \in SecondaryPcs \ {"nvme_address"} /\ last'.rc # 0
  \/ pc = "nvme_address" /\ (~file'.val.exists \/ ~file'.val.readable)

\* This step appended one record to data
Appended == Len(data') = Len(data) + 1 /\ SubSeq(data', 1, Len(data)) = data

\* This step left the record of the same interface under construction
StillBuilding ==
  pc = "sysctl" /\ keyIdx < Len(KeysMap) /\ pc' = "sysctl" /\ idx' = idx /\ keyIdx' = keyIdx + 1

\* The record this step worked on
Contribution == IF StillBuilding THEN entry' ELSE Last(data')

\* The fields the command at a position resolves
FieldsOf(at) ==
  CASE at = "sysctl" -> {KeysMap[keyIdx][2]}
    [] at = "mlnx_qos" -> {"pfcPriority", "pfcTrust", "pfcTsa"}
    [] at \in {"ethtool_i", "nvme_address"} -> {"busInfo", "lnkSta"}
    [] at \in {"lspci_nic", "lspci_nvme"} -> {"lnkSta"}
    [] at = "ethtool_S_tx" -> {"txPauseCtrlPhy"}
    [] at = "ethtool_S_rx" -> {"rxPauseCtrlPhy"}

\* The step neither answered with an error code nor raised on behalf of the
\* entity it worked on: an exception can only come from a later line
CallNotFailed ==
  /\ result'.kind = "returned" => (Response'.code = SUCCESS /\ Response'.data = data')
  /\ result'.kind = "raised" => idx' > idx

\* C4 as claimed: a failing secondary command (or an unreadable sysfs address)
\* for one entity never drops that entity and never fails the call: the entity
\* still contributes one record, with "" for the fields that could not be
\* resolved, and the remaining entities are still processed.
C4_FailureKeepsEntityClaimed ==
  [][SecondaryFailed =>
       /\ StillBuilding \/ Appended
       /\ \A k \in FieldsOf(pc) : Get(Contribution, k) = PyStr(<<>>)
       /\ CallNotFailed]_vars

\* C4 as amended: a failing secondary command never fails the call, and the
\* remaining entities are still processed. What the entity contributes depends on
\* the command: a failed sysctl or mlnx_qos keeps the record with "" in that
\* command's fields; a failed ethtool -S keeps it with "0" as the pause counter; a
\* failed lspci keeps it with lnkSta "N/A"; a failed ethtool -i, or an absent or
\* unreadable NVMe address file, drops the entity.
C4_FailureKeepsEntity ==
  [][SecondaryFailed =>
       /\ CallNotFailed
       /\ StillBuilding \/ idx' > idx
       /\ CASE pc \in {"sysctl", "mlnx_qos"} ->
                 /\ StillBuilding \/ Appended
                 /\ \A k \in FieldsOf(pc) : Get(Contribution, k) = PyStr(<<>>)
            [] pc \in {"ethtool_S_tx", "ethtool_S_rx"} ->
                 /\ Appended
                 /\ \A k \in FieldsOf(pc) : Get(Contribution, k) = PyStr(<<"0">>)
            [] pc \in {"lspci_nic", "lspci_nvme"} ->
                 /\ Appended
                 /\ Get(Contribution, "lnkSta") = PyStr(<<"N/A">>)
            [] pc \in {"ethtool_i", "nvme_address"} -> data' = data]_vars

\* C4 witness: mlnx_qos failed for the first interface, its record is kept with
\* blank PFC fields and the loop stands at the second interface
C4_Witness ==
  /\ tool = "getLosslessNetworkConfig"
  /\ pc = "mlnx_qos"
  /\ last.rc = 1
  /\ Len(data) = 1
  /\ idx > 1
  /\ Get(data[1], "pfcPriority") = PyStr(<<>>)
  /\ Get(data[1], "pfcTrust") = PyStr(<<>>)
  /\ Get(data[1], "pfcTsa") = PyStr(<<>>)

\* The field set each collector declares for its records, in its order
DeclaredFields(t) ==
  CASE t = "getArpConfig" -> <<"interface">> \o [i \in 1..Len(KeysMap) |-> KeysMap[i][2]]
    [] t = "getLosslessNetworkConfig" ->
         <<"interface", "pfcPriority", "pfcTrust", "pfcTsa", "ecnEnable">>
    [] t = "getPcieLinkSpeedForNic" -> <<"interface", "busInfo", "lnkSta">>
    [] t = "getNicCongestionStatsTx" -> <<"interface", "txPauseCtrlPhy">>
    [] t = "getSwitchCongestionStatsRx" -> <<"interface", "rxPauseCtrlPhy">>
    [] t = "getNvmePcieLinkSpeed" -> <<"nvme", "busInfo", "lnkSta">>
    [] t = "getCpuUsage" -> <<"cpuUsage", "cpuThreshold">>
    [] t = "getMemoryUsage" ->
         <<"memUsage", "memTotal", "memUsed", "memAvailable", "memThreshold">>

\* Every record collected or returned has exactly the declared fields (true of
\* the initial state, where there is none)
FieldSets ==
  /\ tool \in Collectors => \A i \in 1..Len(data) : Keys(data[i]) = DeclaredFields(tool)
  /\ Answered => \A i \in 1..Len(Response.data) : Keys(Response.data[i]) = DeclaredFields(tool)

\* None of the lines holds the text
NoLineWith(ls, sub) == \A i \in 1..Len(ls) : ~Contains(ls[i], sub)

\* The traffic_class file was absent, unreadable or did not hold an integer
EcnUnresolved ==
  ~file'.isNone /\ (~file'.val.exists \/ ~file'.val.readable \/ ~IsInt(file'.val.content))

\* The fields this step could not resolve: its command failed, or the label or
\* key it looks for is in no line
Unresolved ==
  LET ls == SplitLines(last'.stdout)
      failed == last'.rc # 0
  IN CASE pc = "sysctl" ->
            IF failed \/ \A i \in 1..Len(ls) :
                           ~StartsWith(ls[i], FullKey(iface, KeysMap[keyIdx][1]))
            THEN FieldsOf(pc) ELSE {}
       [] pc = "mlnx_qos" ->
            (IF failed THEN FieldsOf(pc)
             ELSE (IF NoLineWith(ls, <<"Priority trust state">>) THEN {"pfcTrust"} ELSE {})
                  \cup (IF NoLineWith(ls, <<"tsa", ":">>) THEN {"pfcTsa"} ELSE {})
                  \cup (IF NoLineWith(ls, <<"enabled">>) THEN {"pfcPriority"} ELSE {}))
            \cup (IF EcnUnresolved THEN {"ecnEnable"} ELSE {})
       [] pc = "lspci_nic" ->
            IF failed \/ \A i \in 1..Len(ls) : ~IsLnkSta(ls[i]) THEN FieldsOf(pc) ELSE {}
       [] pc = "lspci_nvme" ->
            IF failed \/ \A i \in 1..Len(ls) :
                           ~(IsLnkSta(ls[i]) \/ Contains(ls[i], <<"Speed", " ", "Downgraded">>))
            THEN FieldsOf(pc) ELSE {}
       [] pc = "ethtool_S_tx" ->
            IF failed \/ NoLineWith(ls, <<"tx_pause_ctrl_phy">>) THEN FieldsOf(pc) ELSE {}
       [] pc = "ethtool_S_rx" ->
            IF failed \/ NoLineWith(ls, <<"rx_pause_ctrl_phy">>) THEN FieldsOf(pc) ELSE {}
       [] OTHER -> {}

\* The value each collector gives a field it could not resolve
DefaultOf(k) ==
  CASE k \in {"txPauseCtrlPhy", "rxPauseCtrlPhy"} -> <<"0">>
    [] k = "lnkSta" -> <<"N/A">>
    [] k = "ecnEnable" -> <<"0", "0">>
    [] k = "pfcPriority" -> IF last'.rc # 0 THEN <<>> ELSE <<"-1">>
    [] OTHER -> <<>>

\* C5 as claimed: every record a collector produces has exactly the collector's
\* declared field set, no key ever absent, and every field whose value could not
\* be resolved (command failed, label or key not found) is the empty string.
C5_DeclaredFieldsClaimed ==
  [][/\ FieldSets'
     /\ (StillBuilding \/ Appended) =>
          \A k \in Unresolved : Get(Contribution, k) = PyStr(<<>>)]_vars

\* C5 as amended: every record a collector produces has exactly the collector's
\* declared field set, no key ever absent; a field whose value could not be
\* resolved holds its collector's default: "" for the ARP fields, pfcTrust and
\* pfcTsa (and pfcPriority when mlnx_qos failed), "-1" for pfcPriority when
\* mlnx_qos ran but printed no enabled line, "00" for ecnEnable, "0" for the pause
\* counters and "N/A" for lnkSta.
C5_DeclaredFields ==
  [][/\ FieldSets'
     /\ (StillBuilding \/ Appended) =>
          \A k \in Unresolved : Get(Contribution, k) = PyStr(DefaultOf(k))]_vars

\* C5 witness: ethtool -S printed no tx_pause_ctrl_phy line and the record of the
\* interface holds "0"
C5_Witness ==
  /\ Answered
  /\ tool = "getNicCongestionStatsTx"
  /\ last.rc = 0
  /\ \A i \in 1..Len(SplitLines(last.stdout)) :
       ~Contains(SplitLines(last.stdout)[i], <<"tx_pause_ctrl_phy">>)
  /\ Response.data # <<>>
  /\ Keys(Last(Response.data)) = <<"interface", "txPauseCtrlPhy">>
  /\ Get(Last(Response.data), "txPauseCtrlPhy") = PyStr(<<"0">>)

\* A command runner has just been run
RunnerRan == proc.kind # "none"

\* C6: the command runners never raise: whatever the command and however its
\* execution ends, they return a (stdout, stderr, exit code) triple, and every end
\* other than normal completion gives stdout "" and exit code -1.
C6_RunnerNeverRaises ==
  RunnerRan =>
    /\ ~last.raised
    /\ proc.kind = "raised" => (last.stdout = <<>> /\ last.rc = -1)

\* C6 witness: execute returned ("", ..., -1) for a command whose program is missing
C6_Witness ==
  /\ pc = "done"
  /\ tool = "execute"
  /\ proc.kind = "raised"
  /\ proc.exc = "FileNotFoundError"
  /\ ~last.raised
  /\ last.stdout = <<>>
  /\ last.rc = -1
  /\ result.kind = "returned"

\* The timeout a runner was configured with
ConfiguredTimeout == IF tool = "execute" THEN ExecutorTimeout(args.timeout) ELSE RUN_TIMEOUT

TimedOut == RunnerRan /\ proc.kind = "raised" /\ proc.exc = "TimeoutExpired"

\* A collector whose first command timed out answers 1002
PrereqTimeoutIs1002 ==
  (Ended /\ TimedOut /\ first.rc = -1) =>
    (result.kind = "returned" /\ Response.code = COMMAND_EXECUTION_FAILED)

\* C7 as claimed: on a timeout either runner returns
\* ("", "Command timeout after Ns", -1), N the configured timeout, and a collector
\* whose first command timed out answers 1002.
C7_TimeoutTripleClaimed ==
  /\ TimedOut =>
       last = Returned(<<>>, <<"Command timeout after ", ToString(ConfiguredTimeout), "s">>, -1)
  /\ PrereqTimeoutIs1002

\* C7 as amended: on a timeout CommandExecutor.execute returns
\* ("", "Command timeout after Ns", -1), N the configured timeout; _run_command
\* returns ("", str(e), -1), where str(e) is "Command '<cmd>' timed out after 3
\* seconds"; a collector whose first command timed out answers 1002.
C7_TimeoutTriple ==
  /\ (TimedOut /\ tool = "execute") =>
       last = Returned(<<>>, <<"Command timeout after ", ToString(ConfiguredTimeout), "s">>, -1)
  /\ (TimedOut /\ tool # "execute") =>
       /\ ~last.raised
       /\ last.stdout = <<>>
       /\ last.rc = -1
       /\ Head(last.stderr) = "Command '"
       /\ SubSeq(last.stderr, Len(last.stderr) - 2, Len(last.stderr))
            = <<"' timed out after ", ToString(RUN_TIMEOUT), " seconds">>
  /\ PrereqTimeoutIs1002

\* C7 witness: an executor configured with 5 seconds reports "after 5s"
C7_Witness ==
  /\ pc = "done"
  /\ tool = "execute"
  /\ TimedOut
  /\ args.timeout = 5
  /\ last = Returned(<<>>, <<"Command timeout after ", "5", "s">>, -1)

\* The enumeration of a per-entity collector found nothing: no line of
\* ibdev2netdev splits in two, no line of nvme list names a device
NothingEnumerated ==
  /\ first.rc = 0
  /\ \/ tool \in IbTools /\ \A i \in 1..Len(lines) : Len(Split(lines[i], SEP)) # 2
     \/ tool = "getNvmePcieLinkSpeed" /\ devices = <<>>

\* C8: when the enumeration command of a per-entity collector exits 0 but yields
\* no matching interface or device, the envelope has code 1005
\* (DEVICE_NOT_AVAILABLE) and data == [].
C8_NothingEnumeratedIs1005 ==
  (Answered /\ NothingEnumerated) =>
    (Response.code = DEVICE_NOT_AVAILABLE /\ Response.data = <<>>)

\* A direct call of a builder has returned
Built(op) == pc = "done" /\ tool = op /\ result.kind = "returned"

ItemSchema == result.value.outputSchema.properties.data.items

\* The type the claim gives a value: number for int and float, boolean for bool,
\* string for the rest
TypeByRuntimeType(val) ==
  CASE val.t \in {"int", "float"} -> "number"
    [] val.t = "bool" -> "boolean"
    [] OTHER -> "string"

\* C9: ResponseBuilder's schema derivation types each field of data[0] by the
\* runtime type of its value: number for int and float, boolean for bool, string
\* for anything else.
C9_TypeByRuntimeType ==
  (Built("build") /\ Response.data # <<>>) =>
    \A i \in 1..Len(Response.data[1]) :
      /\ ItemSchema.properties[i][1] = Response.data[1][i][1]
      /\ ItemSchema.properties[i][2].type = TypeByRuntimeType(Response.data[1][i][2])

\* The first record of the data has a numeric field a and a string field b
NumberAndString(d) ==
  /\ d # <<>>
  /\ HasKey(d[1], "a") /\ Get(d[1], "a").t \in {"int", "float"}
  /\ HasKey(d[1], "b") /\ Get(d[1], "b").t = "str"

TypeOf(k) == Get(ItemSchema.properties, k).type

\* C10 as claimed: for both builders, data whose first record has a numeric field
\* a and a string field b gives a schema typing a "number" and b "string", with
\* the item-level required list exactly the keys of the first record.
C10_BothBuildersClaimed ==
  ((Built("build") \/ Built("_make_response")) /\ NumberAndString(Response.data)) =>
    /\ TypeOf("a") = "number"
    /\ TypeOf("b") = "string"
    /\ ItemSchema.required = Keys(Response.data[1])

\* C10 as amended: on such data ResponseBuilder.build types a "number" and b
\* "string", while _make_response types both a and b "string"; for both builders
\* the item-level required list is exactly the keys of the first record.
C10_BothBuilders ==
  /\ (Built("build") /\ NumberAndString(Response.data)) =>
       /\ TypeOf("a") = "number"
       /\ TypeOf("b") = "string"
       /\ ItemSchema.required = Keys(Response.data[1])
  /\ (Built("_make_response") /\ NumberAndString(Response.data)) =>
       /\ TypeOf("a") = "string"
       /\ TypeOf("b") = "string"
       /\ ItemSchema.required = Keys(Response.data[1])

\* C10 witness: build on [{"a": 1, "b": "x"}, {"b": "y"}] typed a number, b string
\* and requires a and b
C10_Witness ==
  /\ Built("build")
  /\ Response.data = <<RecordAB, RecordB>>
  /\ TypeOf("a") = "number"
  /\ TypeOf("b") = "string"
  /\ ItemSchema.required = <<"a", "b">>

\* What a builder returned, whether called by a collector or directly
Enveloped == Answered \/ Built("build") \/ Built("_make_response")

OutputSchema == result.value.outputSchema

\* The schema the builder at work derives from a given data
SchemaOf(d) == IF tool = "build" THEN BuilderSchemaForData(d) ELSE GetOutputSchemaForData(d)

\* C11: for every data the derived outputSchema has top-level type "object",
\* required [code, message, data] and additionalProperties false, and the item
\* schema has additionalProperties true; for empty data the item schema is the
\* open default (properties {}, required []); for non-empty data the item
\* properties and required list depend on data[0] alone, not on later records.
C11_SchemaShape ==
  Enveloped =>
    /\ OutputSchema.type = "object"
    /\ OutputSchema.required = <<"code", "message", "data">>
    /\ OutputSchema.additionalProperties = FALSE
    /\ ItemSchema.type = "object"
    /\ ItemSchema.additionalProperties = TRUE
    /\ Response.data = <<>> => (ItemSchema.properties = <<>> /\ ItemSchema.required = <<>>)
    /\ Response.data # <<>> =>
         /\ Keys(ItemSchema.properties) = Keys(Response.data[1])
         /\ ItemSchema.required = Keys(Response.data[1])
         /\ OutputSchema = SchemaOf(<<Response.data[1]>>)

\* C11 witness: build on [{"b": "y"}, {"a": 1, "b": "x"}] requires b alone
C11_Witness ==
  /\ Built("build")
  /\ Response.data = <<RecordB, RecordAB>>
  /\ Keys(ItemSchema.properties) = <<"b">>
  /\ ItemSchema.required = <<"b">>
  /\ ItemSchema.additionalProperties = TRUE
  /\ OutputSchema.additionalProperties = FALSE

\* The taxonomy's default message for the code of a direct call
DefaultMessage == ERROR_CODE(args.code)

DirectlyBuilt == Built("build") \/ Built("_make_response")

\* C12 as claimed: the envelope carries the taxonomy's default message for code
\* exactly when message is omitted (None); a supplied message, the empty string
\* included, is carried unchanged.
C12_DefaultMessageClaimed ==
  DirectlyBuilt =>
    Response.message = IF args.message.isNone THEN DefaultMessage ELSE args.message.val

\* C12 as amended: the envelope carries the taxonomy's default message for code
\* when message is omitted (None) or is the empty string; a supplied non-empty
\* message is carried unchanged.
C12_DefaultMessage ==
  DirectlyBuilt =>
    Response.message = IF args.message.isNone \/ args.message.val = <<>>
                       THEN DefaultMessage
                       ELSE args.message.val

\* C12 witness: build(COMMAND_EXECUTION_FAILED, ..., "") answers with the default
C12_Witness ==
  /\ Built("build")
  /\ args.code = COMMAND_EXECUTION_FAILED
  /\ ~args.message.isNone
  /\ args.message.val = <<>>
  /\ Response.message = <<"command execution failed">>

\* What a caller reads from the returned string: structuredContent.response
ParsedResponse ==
  Member(Member(Loads(Serialized(result.value)), "structuredContent"), "response")

\* The code and the data of a direct call come back as they were given
CodeAndDataComeBack ==
  /\ Member(ParsedResponse, "code") = PyInt(<<ToString(args.code)>>)
  /\ Member(ParsedResponse, "data") = DataList(DataOrEmpty(args.data))

\* C13 as claimed: for every code of the taxonomy, every message and every list
\* of flat records, parsing the string a builder returns and reading
\* structuredContent.response gives the original code, message and data.
C13_RoundTripClaimed ==
  (DirectlyBuilt /\ args.code \in ErrorCode) =>
    /\ CodeAndDataComeBack
    /\ ~args.message.isNone => Member(ParsedResponse, "message") = PyStr(args.message.val)

\* C13 as amended: for every code of the taxonomy, every message and every list
\* of flat records, parsing the string a builder returns and reading
\* structuredContent.response gives the original code and data (same records,
\* order, keys and values) and the message of the envelope: the given message
\* when it is non-empty, the default of the code when it is empty or omitted.
C13_RoundTrip ==
  (DirectlyBuilt /\ args.code \in ErrorCode) =>
    /\ CodeAndDataComeBack
    /\ Member(ParsedResponse, "message") =
         PyStr(IF args.message.isNone \/ args.message.val = <<>>
               THEN DefaultMessage ELSE args.message.val)
    /\ ParsedResponse = PyDict(<< <<"code", PyInt(<<ToString(Response.code)>>)>>,
                                  <<"message", PyStr(Response.message)>>,
                                  <<"data", DataList(Response.data)>> >>)

\* C13 witness: a message and a record with quotes, a backslash and a line break
\* in them come back from the string that build returned
C13_Witness ==
  /\ Built("build")
  /\ args.message = Some(QuotedMessage)
  /\ args.data = Some(<<RecordQuoted, RecordMixed>>)
  /\ Member(ParsedResponse, "message") = PyStr(QuotedMessage)
  /\ Member(ParsedResponse, "data") = DataList(<<RecordQuoted, RecordMixed>>)
  /\ \E i \in 1..Len(Serialized(result.value)) : Serialized(result.value)[i] = "\\\""

\* The locals of a call of t in a session that has served no call before, its
\* first command having ended as r
FirstCall(t, r) ==
  [pc |-> "idle", tool |-> t, lines |-> <<>>, devices |-> <<>>, idx |-> 0,
   iface |-> <<>>, device |-> <<>>, bdf |-> <<>>, entry |-> <<>>,
   keyIdx |-> 0, data |-> <<>>, result |-> NoResult, first |-> r]

\* ... and where its first step takes it
FirstStep(t, r) ==
  CASE t \in IbTools -> IbCollector(FirstCall(t, r), r)
    [] t = "getNvmePcieLinkSpeed" -> NvmeCollector(FirstCall(t, r), r)
    [] t = "getCpuUsage" -> CpuUsage(FirstCall(t, r), r)
    [] t = "getMemoryUsage" -> MemoryUsage(FirstCall(t, r), r)

\* No local of a call is left
NothingLeft ==
  /\ tool = "none" /\ lines = <<>> /\ devices = <<>> /\ idx = 0 /\ keyIdx = 0
  /\ iface = <<>> /\ device = <<>> /\ bdf = <<>> /\ entry = <<>>
  /\ data = <<>> /\ result = NoResult /\ first = NoLast

\* The entities of the running call: the enumerated ones, or the host itself
Enumerated ==
  CASE tool \in IbTools -> Len(lines)
    [] tool = "getNvmePcieLinkSpeed" -> Len(devices)
    [] OTHER -> 1

MemWords ==
  LET ls == SplitLines(first.stdout)
      hit == FirstHit({i \in 1..Len(ls) : StartsWith(ls[i], <<"Mem", ":">>)})
  IN IF hit = 0 THEN <<>> ELSE SplitWs(ls[hit])

\* total (2nd word) and used (3rd word) are there and are integers, total not 0
TotalAndUsed ==
  /\ Len(MemWords) >= 3
  /\ IsInt(MemWords[2]) /\ IsInt(MemWords[3])
  /\ IntOf(MemWords[2]) # 0

\* available (7th word) is there and is an integer
AvailableThere == Len(MemWords) >= 7 /\ IsInt(MemWords[7])

MemFields == {"memUsage", "memTotal", "memUsed", "memAvailable", "memThreshold"}

MemoryAnswered == Answered /\ tool = "getMemoryUsage" /\ first.rc = 0

OneMemRecord ==
  /\ Len(Response.data) = 1
  /\ Len(Response.data[1]) = 5
  /\ {Response.data[1][i][1] : i \in 1..5} = MemFields

\* C15 (as claimed): free having exited 0, a missing or non-integer total, used
\* or available, a total of 0 or no Mem: line give 1003 with data == []; code 0
\* comes with exactly one record of the five fields.
C15_MemoryParseClaimed ==
  MemoryAnswered =>
    /\ ~(TotalAndUsed /\ AvailableThere) => Response.code = 1003 /\ Response.data = <<>>
    /\ Response.code = 0 => OneMemRecord

\* C15: free having exited 0, a missing or non-integer total or used, a
\* non-integer available, a total of 0 or no Mem: line give 1003 with
\* data == []; a Mem: line of fewer than seven words whose total and used are
\* good gives code 0 with memAvailable "0"; code 0 comes with exactly one
\* record of the five fields.
C15_MemoryParse ==
  MemoryAnswered =>
    /\ ~TotalAndUsed => Response.code = 1003 /\ Response.data = <<>>
    /\ (Len(MemWords) >= 7 /\ ~IsInt(MemWords[7])) =>
         Response.code = 1003 /\ Response.data = <<>>
    /\ (TotalAndUsed /\ Len(MemWords) < 7) =>
         /\ Response.code = 0
         /\ Get(Response.data[1], "memAvailable") = PyStr(<<"0">>)
    /\ Response.code = 0 => OneMemRecord

\* free printed a Mem: line of a total and a used column only
C15_Witness ==
  /\ MemoryAnswered
  /\ TotalAndUsed
  /\ Len(MemWords) = 3
  /\ Response.code = 0


\* The output of the top pipeline, trimmed
CpuText == Strip(first.stdout)

CpuAnswered == Answered /\ tool = "getCpuUsage" /\ first.rc = 0

\* The text of a number with one decimal: an integer gains ".0", a number with
\* one decimal is kept
WithOneDecimal(w) == IF Len(w) = 1 THEN w \o <<".", "0">> ELSE w

\* C16: the top pipeline having exited 0, an output that parses as a number
\* gives code 0 and the one record {cpuUsage: the number with one decimal,
\* cpuThreshold: "80"}; any other output, the empty one included, gives 1003
\* and data == [].
C16_CpuRecord ==
  CpuAnswered =>
    IF IsFloat(CpuText)
    THEN /\ Response.code = 0
         /\ Response.data = << << <<"cpuUsage", PyStr(WithOneDecimal(CpuText))>>,
                                  <<"cpuThreshold", PyStr(<<"80">>)>> >> >>
    ELSE /\ Response.code = 1003
         /\ Response.data = <<>>

\* top reported 12, an integer
C16_Witness ==
  /\ CpuAnswered
  /\ CpuText = <<"12">>
  /\ Response.code = 0
  /\ Get(Response.data[1], "cpuUsage") = PyStr(<<"12", ".", "0">>)


\* The first command of a collector call ended with a non-zero exit code and
\* the call answered
PrereqFailedAnswered == Answered /\ first.rc # 0

\* C17: for every collector, the message of the envelope returned after the
\* first command exited non-zero contains the stderr text of that command.
C17_MessageEmbedsStderr ==
  PrereqFailedAnswered => Contains(Response.message, first.stderr)


\* C18: every envelope a collector returns, after any sequence of command
\* outcomes, has a code of the closed set {0, 1001, 1002, 1003, 1004, 1005}, a
\* message that is a non-empty string, and data that is a list.
C18_WellFormedEnvelope ==
  Answered =>
    /\ Response.code \in ErrorCode
    /\ Response.message \in Seq(STRING) /\ Response.message # <<>>
    /\ DOMAIN Response.data = 1..Len(Response.data)
    /\ DataList(Response.data).t = "list"

\* an envelope returned after a secondary command failed and another succeeded
C18_Witness ==
  /\ Answered
  /\ faults > 0
  /\ Response.code = 0
  /\ Response.message = <<"success">>
  /\ Response.data # <<>>


\* The call is at a secondary command: its first command has run
AtSecondary == tool \in Collectors /\ pc \in SecondaryPcs

\* This step runs the command the call ran last, sysctl -a, although that
\* execution failed
RunsFailedAgain ==
  /\ tool = "getArpConfig" /\ pc = "sysctl"
  /\ last.rc # 0
  /\ tool' = tool
  /\ proc' \in SysctlOutcomes(iface, KeysMap[keyIdx][1])

\* C19: within one collector call the first command runs once, before any
\* secondary command; nothing runs after it failed; and no command is run
\* again with the same arguments after an execution of it failed.
C19_NoRetry ==
  [][/\ AtSecondary => first' = first
     /\ (tool' \in Collectors /\ first'.rc # 0) => pc' = "done"
     /\ ~RunsFailedAgain]_vars


\* The two binary digits of m, 0 <= m < 4
TwoBits(m) == <<ToString(m \div 2), ToString(m % 2)>>

\* getLosslessNetworkConfig has just looked for the traffic_class file of an
\* interface and appended the record of that interface
EcnDecided == tool = "getLosslessNetworkConfig" /\ ~file.isNone /\ data # <<>>

\* C20: ecnEnable is the low two bits of the non-negative integer read from
\* traffic_class, as two binary digits; it is "00" when the file is absent,
\* unreadable or holds no integer.
C20_EcnLowTwoBits ==
  EcnDecided =>
    LET f == file.val
        e == Get(Last(data), "ecnEnable")
    IN IF f.exists /\ f.readable /\ IsInt(f.content)
       THEN e = PyStr(TwoBits(IntOf(f.content) % 4))
       ELSE e = PyStr(<<"0", "0">>)


\* The controller a line of nvme list names: "nvme<k>" of its /dev/nvme<k>n<m>
Controller(line) ==
  LET at == Find(line, DEV_NVME) IN <<"n", "vme", line[at + Len(DEV_NVME)]>>

\* The controllers of the lines ls, each once, in first-seen order
RECURSIVE Controllers(_, _)
Controllers(ls, acc) ==
  IF ls = <<>> THEN acc
  ELSE Controllers(Tail(ls),
         IF Contains(Head(ls), DEV_NVME) /\ \A i \in 1..Len(acc) : acc[i] # Controller(Head(ls))
         THEN Append(acc, Controller(Head(ls)))
         ELSE acc)

\* getNvmePcieLinkSpeed has built its device list
NvmeListed ==
  tool = "getNvmePcieLinkSpeed" /\ pc # "idle" /\ ~first.raised /\ first.rc = 0

\* C21: the device list of getNvmePcieLinkSpeed holds the controller name
\* nvme<k> of every line with a /dev/nvme<k>n<m>, each controller once and in
\* first-seen order, and the nvme field of every record is such a name.
C21_ControllerNames ==
  NvmeListed =>
    /\ devices = Controllers(lines, <<>>)
    /\ \A i \in 1..Len(data) :
         \E j \in 1..Len(devices) :
           Get(data[i], "nvme") = PyStr(Controllers(lines, <<>>)[j])


\* The collectors that write one record per enumerated interface
PerInterface ==
  {"getArpConfig", "getLosslessNetworkConfig", "getNicCongestionStatsTx",
   "getSwitchCongestionStatsRx"}

\* The line splits into exactly two parts on " ==> "
Matching(l) == Len(Split(l, SEP)) = 2

\* The lines of the ibdev2netdev output that match, in line order
MatchingLines == SelectSeq(SplitLines(first.stdout), Matching)

\* C22: in the four per-interface collectors a line that does not split into
\* exactly two parts on " ==> " is skipped and leaves the code alone: a call
\* that returns after a successful ibdev2netdev returns code 0, and its data
\* holds one record per matching line, in line order, whose interface is the
\* first word to the right of the separator.
C22_OneRecordPerMatchingLine ==
  (Answered /\ tool \in PerInterface /\ first.rc = 0) =>
    /\ Response.code = 0
    /\ Len(Response.data) = Len(MatchingLines)
    /\ \A i \in 1..Len(MatchingLines) :
         Get(Response.data[i], "interface") =
           PyStr(SplitWs(Split(MatchingLines[i], SEP)[2])[1])

\* a line with the separator twice came with one good line
C22_Witness ==
  /\ Answered /\ tool = "getNicCongestionStatsTx"
  /\ Len(lines) = 2 /\ Len(MatchingLines) = 1
  /\ \E i \in 1..2 : Len(Split(lines[i], SEP)) = 3
  /\ Response.code = 0
  /\ Len(Response.data) = 1


\* t is s without its leading and trailing whitespace
IsTrimOf(t, s) ==
  /\ t = <<>> \/ (~IsWs(t[1]) /\ ~IsWs(t[Len(t)]))
  /\ \E i \in 1..(Len(s) + 1) :
       /\ i + Len(t) - 1 <= Len(s)
       /\ t = SubSeq(s, i, i + Len(t) - 1)
       /\ \A k \in 1..Len(s) : (k < i \/ k > i + Len(t) - 1) => IsWs(s[k])

\* The process a runner started ended by itself, with an exit code of 0..255
ProcessExited == proc.kind = "completed" /\ proc.returncode \in 0..255

\* C23: when the subprocess completes, a runner returns its stdout and stderr
\* trimmed and its exit code unchanged, non-zero codes included; so, for exit
\* codes of 0..255, the runner returns -1 exactly when the execution itself
\* failed, by timeout or by another exception.
C23_TrimmedAndOwnExitCode ==
  RunnerRan =>
    /\ ProcessExited =>
         /\ ~last.raised
         /\ IsTrimOf(last.stdout, proc.stdout)
         /\ IsTrimOf(last.stderr, proc.stderr)
         /\ last.rc = proc.returncode
    /\ (ProcessExited \/ proc.kind = "raised") =>
         (last.rc = -1 <=> proc.kind = "raised")

\* execute returned the exit code 255 of a process and its trimmed output
C23_Witness ==
  /\ pc = "done"
  /\ tool = "execute"
  /\ ProcessExited
  /\ proc.returncode = 255
  /\ proc.stdout = <<" ", "ok", " ", "1", " ", NL>>
  /\ last.stdout = <<"ok", " ", "1">>
  /\ last.rc = 255


\* The place of a command among the commands a collector runs for one entity
Rank(p) == IF p \in {"lspci_nic", "lspci_nvme"} THEN 2 ELSE 1

\* This step ends the call or takes it on: to a later entity, or to a later
\* key or a later command of the same entity
Advances ==
  \/ pc' = "done"
  \/ idx' > idx
  \/ idx' = idx /\ (keyIdx' > keyIdx \/ Rank(pc') > Rank(pc))

\* The loop counters stay within what the first command enumerated
WithinEnumeration == idx <= Enumerated + 1 /\ keyIdx <= Len(KeysMap)

\* C24: every command having returned, a collector call returns an envelope
\* after finitely many commands: each step after the first ends the call or
\* advances through the enumerated entities and their fixed commands, a failed
\* or timed-out command like any other, the counters never leave the
\* enumeration, and the call that ends has returned an envelope.
C24_Terminates ==
  [][/\ AtSecondary => Advances
     /\ (tool' \in Collectors) => WithinEnumeration'
     /\ Ended' => result'.kind = "returned"]_vars

\* The same without the last part: every call ends, by a return or not
C24_Ends ==
  [][/\ AtSecondary => Advances
     /\ (tool' \in Collectors) => WithinEnumeration']_vars

==============================================================================
